---- MODULE Spec2Model ----
(***************************************************************************)
(* A model of the medai-backend REST API: the access guard, the request    *)
(* validators, the patient-profile, health-record and medication handlers, *)
(* the Mongoose schemas they write through, and the risk-prediction        *)
(* adapter.  Every handler is one action; the action runs the route's      *)
(* whole middleware chain (protect, validators, handleValidationErrors,    *)
(* handler, errorHandler) and leaves the response in `last`.               *)
(***************************************************************************)
EXTENDS Integers, Sequences, FiniteSets, TLC

VARIABLES
    profiles,   \* PatientProfile collection: sequence indexed by _id; an entry is a document or Deleted
    records,    \* HealthRecord collection, same shape
    meds,       \* Medication collection, same shape
    last,       \* the most recent request and what was answered to it
    flight      \* the requests handled step by step: where each stands and what it holds

vars == <<profiles, records, meds, last, flight>>

(***************************************************************************)
(* Bounds of the model.                                                    *)
(***************************************************************************)
MaxProfiles == 2
MaxRecords == 3
MaxShapedRecords == 1
MaxMeds == 2
MaxSnapshots == 2
MaxTime == 3
MaxWriters == 2

\* "now" of the server clock; every valid past time is 1..Now, Now + 1 is in the future
Now == MaxTime

(***************************************************************************)
(* Values.  A JSON value or a stored path is a tagged record, so that a    *)
(* number, a string and an absent field can be told apart.  A document id  *)
(* is its index in the collection; 0 stands for a URL parameter that is    *)
(* not an ObjectId.                                                        *)
(***************************************************************************)
Absent == [k |-> "absent"]          \* a body field that is not in the JSON (undefined)
NullV == [k |-> "null"]             \* a stored path with no value
Num(n) == [k |-> "num", n |-> n]
Str(s) == [k |-> "str", s |-> s]
Deleted == [k |-> "deleted"]        \* a removed document (its _id is never issued again)
NoDoc == [k |-> "nodoc"]            \* the null a findById answers
None == "none"

IsNum(v) == v.k = "num"
IsStr(v) == v.k = "str"
Present(v) == v # Absent

(***************************************************************************)
(* Users.  The User collection is not written by any patient-scoped route. *)
(***************************************************************************)
UserIds == {"u1", "u2", "adm"}
GhostId == "gone"       \* an id a credential was signed for, with no User document

RoleOf(uid) == IF uid = "adm" THEN "admin" ELSE "user"

FindUser(uid) == IF uid \in UserIds THEN [k |-> "user", id |-> uid, role |-> RoleOf(uid)] ELSE NoDoc

(***************************************************************************)
(* Credentials: the Authorization header of a request.                     *)
(***************************************************************************)
Credentials ==
    [kind : {"missing", "malformed", "expired", "badsig"}, id : {None}]
        \cup [kind : {"valid"}, id : UserIds \cup {GhostId}]

ValidCred(uid) == [kind |-> "valid", id |-> uid]

\* jwt.verify: returns the decoded payload or throws
JwtVerifies(cred) == cred.kind = "valid"

(***************************************************************************)
(* Responses.  `kind` names the failure of the error taxonomy.             *)
(***************************************************************************)
\* A JSON response: its HTTP status, what it says, and the keys of its body.
Json(status, kind, fields) == [status |-> status, kind |-> kind, fields |-> fields]

\* The envelope of the handlers, the access guard and errorHandler:
\* { success: true, data } or { success: false, error: <message> }.
Resp(status, kind) ==
    Json(status, kind, IF kind = "Success" THEN {"success", "data"} ELSE {"success", "error"})

Ok200 == Resp(200, "Success")
Created201 == Resp(201, "Success")
NotFound404 == Resp(404, "NotFound")
\* an ownership refusal: the handlers answer it with status 401
Forbidden401 == Resp(401, "Forbidden")
Unauthenticated401 == Resp(401, "Unauthenticated")
\* handleValidationErrors: { success: false, message: 'Validation failed', errors: [...] }
Validation400 == Json(400, "ValidationFailed", {"success", "message", "errors"})
\* errorHandler for a Mongoose ValidationError: { success: false, error: <the messages> }
SchemaValidation400 == Resp(400, "ValidationFailed")
BadRequest400 == Resp(400, "BadRequest")
Server500 == Resp(500, "InternalError")

(***************************************************************************)
(* The access guard.                                                       *)
(***************************************************************************)
\* (a variant that trusts the id of a verified credential without reading the user)
protectWithoutLookup(cred) ==
    IF cred.kind = "missing" \/ ~JwtVerifies(cred)
    THEN [pass |-> FALSE, user |-> NoDoc, resp |-> Unauthenticated401, nexts |-> 0]
    ELSE [pass |-> TRUE, user |-> [k |-> "user", id |-> cred.id, role |-> RoleOf(cred.id)],
          resp |-> NoDoc, nexts |-> 1]

\* What protect does with a request: it answers it itself (resp), or attaches the user
\* and calls next() (nexts counts the calls).
protect(cred) ==
    IF cred.kind = "missing"
    THEN [pass |-> FALSE, user |-> NoDoc, resp |-> Unauthenticated401, nexts |-> 0]
    ELSE IF ~JwtVerifies(cred)
    THEN [pass |-> FALSE, user |-> NoDoc, resp |-> Unauthenticated401, nexts |-> 0]
    ELSE IF FindUser(cred.id) = NoDoc
    THEN [pass |-> FALSE, user |-> NoDoc, resp |-> NotFound404, nexts |-> 0]
    ELSE [pass |-> TRUE, user |-> FindUser(cred.id), resp |-> NoDoc, nexts |-> 1]

\* The text of an id, as toString() gives it: of an ObjectId its hex string, of a
\* populated document the inspection of the whole document.
IdText(uid) == [text |-> "hex", of |-> uid]
InspectText(uid) == [text |-> "inspect", of |-> uid]

\* userId.toString() of a profile read with findById
OwnerText(profile) == IdText(profile.userId)

\* userId.toString() of a profile read with findById(...).populate('userId', ...)
PopulatedOwnerText(profile) == InspectText(profile.userId)

\* (a variant that refuses nobody)
AnyoneAuthorized(text, user) == FALSE

\* text !== req.user.id && req.user.role !== 'admin'
NotAuthorized(text, user) == text # IdText(user.id) /\ user.role # "admin"

(***************************************************************************)
(* Request validation (express-validator).  A chain's validators all run,  *)
(* each failing one adds a (field, message) pair; a chain marked           *)
(* optional() is skipped whole when the field is undefined.                *)
(***************************************************************************)
Err(field, message) == [field |-> field, message |-> message]

HRTypes == {"blood_pressure", "glucose", "weight", "heart_rate", "symptom_log",
            "activity", "food_intake", "sleep", "other"}
ValueTypes == {"glucose", "weight", "heart_rate"}

LongText == "long"      \* a string longer than every maxlength of the schemas
EmptyText == ""

\* isISO8601: a number n stands for the ISO date of time n
IsDate(v) == IsNum(v)
InFuture(v) == IsNum(v) /\ v.n > Now

\* isMongoId on a URL parameter
validateObjectIdParam(paramName, id) ==
    IF id = 0 THEN {Err(paramName, "invalid id format")} ELSE {}

TypeErrors(body) ==
    (IF ~IsStr(body.type) \/ body.type = Str(EmptyText)
        THEN {Err("type", "type is required")} ELSE {})
    \cup (IF ~IsStr(body.type) \/ body.type.s \notin HRTypes
        THEN {Err("type", "invalid type")} ELSE {})

RecordedAtErrors(body) ==
    (IF ~IsDate(body.recordedAt) THEN {Err("recordedAt", "invalid date format")} ELSE {})
    \cup (IF ~IsDate(body.recordedAt) THEN {Err("recordedAt", "date is required")} ELSE {})
    \cup (IF InFuture(body.recordedAt) THEN {Err("recordedAt", "date in the future")} ELSE {})

NotesErrors(body) ==
    IF Present(body.notes) /\ body.notes = Str(LongText)
    THEN {Err("notes", "notes too long")} ELSE {}

ValueErrors(body) ==
    IF ~Present(body.value) THEN {}
    ELSE (IF ~IsNum(body.value) THEN {Err("value", "value must be a number")} ELSE {})
         \cup (IF body.type = Str("blood_pressure")
                THEN {Err("value", "value not used for blood_pressure")} ELSE {})

UnitErrors(body) ==
    IF ~Present(body.unit) THEN {}
    ELSE (IF body.unit = Str(LongText) THEN {Err("unit", "unit too long")} ELSE {})
         \cup (IF IsNum(body.value) /\ body.unit = Str(EmptyText)
                THEN {Err("unit", "unit is required with a value")} ELSE {})

PressureErrors(body, field) ==
    IF ~Present(body[field]) THEN {}
    ELSE (IF ~(IsNum(body[field]) /\ body[field].n >= 0)
            THEN {Err(field, "must be a non-negative integer")} ELSE {})
         \cup (IF body.type # Str("blood_pressure")
                THEN {Err(field, "not used for this type")} ELSE {})

validateHealthRecordBody(body) ==
    TypeErrors(body) \cup RecordedAtErrors(body) \cup NotesErrors(body)
        \cup ValueErrors(body) \cup UnitErrors(body)
        \cup PressureErrors(body, "systolic") \cup PressureErrors(body, "diastolic")

\* (a variant that reports the first pair only)
handleFirstErrorOnly(errors) ==
    IF errors # {}
    THEN [pass |-> FALSE, resp |-> Validation400, errors |-> {CHOOSE e \in errors : TRUE}]
    ELSE [pass |-> TRUE, resp |-> NoDoc, errors |-> {}]

\* validationResult(req).array(): every pair; the handler runs only when there is none
handleValidationErrors(errors) ==
    IF errors # {}
    THEN [pass |-> FALSE, resp |-> Validation400, errors |-> errors]
    ELSE [pass |-> TRUE, resp |-> NoDoc, errors |-> {}]

(***************************************************************************)
(* The HealthRecord schema (Mongoose).                                     *)
(***************************************************************************)
\* a body field as the path of a new document: undefined is no value
PathOf(v) == IF Present(v) THEN v ELSE NullV

HasValue(v) == v # NullV /\ v # Absent

\* new HealthRecord(body): the defaults of notes and recordedAt applied
HealthRecordDoc(body, patientId) ==
    [k |-> "record",
     patientId |-> patientId,
     type |-> PathOf(body.type),
     value |-> PathOf(body.value),
     unit |-> PathOf(body.unit),
     systolic |-> PathOf(body.systolic),
     diastolic |-> PathOf(body.diastolic),
     notes |-> IF Present(body.notes) THEN body.notes ELSE Str(EmptyText),
     recordedAt |-> IF Present(body.recordedAt) THEN body.recordedAt ELSE Num(Now)]

\* required of a String path: a non-empty string; of the other paths: a value
MissingText(v) == ~HasValue(v) \/ v = Str(EmptyText)

\* the validators of the schema's paths, as document validation runs them
HealthRecordPathErrors(doc) ==
    (IF MissingText(doc.type) THEN {Err("type", "required")} ELSE {})
    \cup (IF HasValue(doc.type) /\ doc.type # Str(EmptyText)
             /\ ~(IsStr(doc.type) /\ doc.type.s \in HRTypes)
          THEN {Err("type", "enum")} ELSE {})
    \cup (IF IsStr(doc.type) /\ doc.type.s \in ValueTypes /\ ~HasValue(doc.value)
          THEN {Err("value", "required")} ELSE {})
    \cup (IF HasValue(doc.value) /\ MissingText(doc.unit) THEN {Err("unit", "required")} ELSE {})
    \cup (IF doc.unit = Str(LongText) THEN {Err("unit", "maxlength")} ELSE {})
    \cup UNION {
            (IF doc.type = Str("blood_pressure") /\ ~HasValue(doc[f])
             THEN {Err(f, "required")} ELSE {})
            : f \in {"systolic", "diastolic"} }
    \cup UNION {
            (IF IsStr(doc[f]) THEN {Err(f, "cast")} ELSE {})
            \cup (IF IsNum(doc[f]) /\ doc[f].n < 0 THEN {Err(f, "min")} ELSE {})
            : f \in {"value", "systolic", "diastolic"} }
    \cup (IF doc.notes = Str(LongText) THEN {Err("notes", "maxlength")} ELSE {})
    \cup (IF ~IsDate(doc.recordedAt) THEN {Err("recordedAt", "cast")} ELSE {})

\* HealthRecordSchema.pre('validate'): the type-conditioned forbidden fields
HealthRecordPreValidate(doc) ==
    IF doc.type = Str("blood_pressure")
    THEN (IF HasValue(doc.value) THEN {Err("value", "not used for blood_pressure")} ELSE {})
    ELSE IF IsStr(doc.type) /\ doc.type.s \in ValueTypes
    THEN (IF HasValue(doc.systolic) THEN {Err("systolic", "not used for this type")} ELSE {})
         \cup (IF HasValue(doc.diastolic) THEN {Err("diastolic", "not used for this type")} ELSE {})
    ELSE {}

\* document validation, as HealthRecord.create runs it before the insert
HealthRecordCreateErrors(doc) == HealthRecordPathErrors(doc) \cup HealthRecordPreValidate(doc)

\* findByIdAndUpdate casts the body to the schema first: a value that is no number
\* (no date) for a Number (Date) path throws a CastError
HealthRecordUpdateCastFails(body) ==
    \/ \E f \in {"value", "systolic", "diastolic"} : IsStr(body[f])
    \/ (Present(body.recordedAt) /\ ~IsDate(body.recordedAt))

\* findByIdAndUpdate(id, body, {runValidators: true}): update validators run on the
\* paths the body sets, each on the new value alone: `this` is the query, not the
\* stored document, so the required functions see no type and no value, and the
\* pre('validate') hook, a document middleware, does not run.
HealthRecordUpdateErrors(body) ==
    (IF Present(body.type) /\ MissingText(body.type) THEN {Err("type", "required")} ELSE {})
    \cup (IF HasValue(body.type) /\ body.type # Str(EmptyText)
             /\ ~(IsStr(body.type) /\ body.type.s \in HRTypes)
          THEN {Err("type", "enum")} ELSE {})
    \cup (IF body.recordedAt = NullV THEN {Err("recordedAt", "required")} ELSE {})
    \cup (IF body.unit = Str(LongText) THEN {Err("unit", "maxlength")} ELSE {})
    \cup UNION {
            (IF IsNum(body[f]) /\ body[f].n < 0 THEN {Err(f, "min")} ELSE {})
            : f \in {"value", "systolic", "diastolic"} }
    \cup (IF body.notes = Str(LongText) THEN {Err("notes", "maxlength")} ELSE {})

\* the $set of an update: every field of the body replaces the stored path
Merge(stored, body, field) == IF Present(body[field]) THEN body[field] ELSE stored[field]

HealthRecordUpdated(stored, body) ==
    [k |-> "record",
     patientId |-> IF Present(body.patientId) THEN body.patientId.n ELSE stored.patientId,
     type |-> Merge(stored, body, "type"),
     value |-> Merge(stored, body, "value"),
     unit |-> Merge(stored, body, "unit"),
     systolic |-> Merge(stored, body, "systolic"),
     diastolic |-> Merge(stored, body, "diastolic"),
     notes |-> Merge(stored, body, "notes"),
     recordedAt |-> Merge(stored, body, "recordedAt")]

(***************************************************************************)
(* Collections.                                                            *)
(***************************************************************************)
Exists(store, id) == id \in 1..Len(store) /\ store[id] # Deleted

\* Model.findById(id)
FindById(store, id) == IF Exists(store, id) THEN store[id] ELSE NoDoc

\* Model.create(doc): the new document gets the next _id
Inserted(store, doc) == Append(store, doc)

\* doc.deleteOne()
Removed(store, id) == [store EXCEPT ![id] = Deleted]

Ids(store) == {i \in 1..Len(store) : store[i] # Deleted}

\* the documents of a find() without a sort, in insertion order
RECURSIVE NaturalOrder(_)
NaturalOrder(S) ==
    IF S = {} THEN <<>>
    ELSE LET first == CHOOSE i \in S : \A j \in S : i <= j
         IN  <<first>> \o NaturalOrder(S \ {first})

OwnerOf(pid) == IF Exists(profiles, pid) THEN profiles[pid].userId ELSE None

(***************************************************************************)
(* Errors on their way to a response.                                      *)
(***************************************************************************)
\* new ErrorResponse(message, statusCode)
ErrorResponse(kind, statusCode) == [name |-> "ErrorResponse", kind |-> kind, statusCode |-> statusCode]
ValidationError == [name |-> "ValidationError", kind |-> "ValidationFailed", statusCode |-> 0]
CastError == [name |-> "CastError", kind |-> "NotFound", statusCode |-> 0]
HeadersSentError == [name |-> "Error", kind |-> "InternalError", statusCode |-> 0]

\* the response errorHandler writes for an error passed to next()
errorHandler(err) ==
    IF err.name = "CastError" THEN NotFound404
    ELSE IF err.name = "ValidationError" THEN SchemaValidation400
    ELSE IF err.statusCode # 0 THEN Resp(err.statusCode, err.kind)
    ELSE Server500

\* The writes to `res` a handler wrapped in asyncHandler ends with, `sent` being
\* the writes so far.  Only the first write reaches the client; a later one throws
\* inside the handler, asyncHandler passes the throw to next() and errorHandler
\* tries to write once more.
Send(sent, resp) ==
    IF sent = <<>> THEN <<resp>> ELSE sent \o <<resp, errorHandler(HeadersSentError)>>

\* a rejection of the handler's promise: asyncHandler passes it to next()
Throw(sent, err) == sent \o <<errorHandler(err)>>

(***************************************************************************)
(* The health-record controller.                                           *)
(***************************************************************************)
\* The helper answers a missing profile and a foreign one through next(err) and
\* returns undefined; it returns the profile otherwise.
checkPatientProfileAccess(user, patientId) ==
    LET patientProfile == FindById(profiles, patientId) IN
    IF patientProfile = NoDoc
    THEN [profile |-> NoDoc, sent |-> <<errorHandler(ErrorResponse("NotFound", 404))>>]
    ELSE IF NotAuthorized(OwnerText(patientProfile), user)
    THEN [profile |-> NoDoc, sent |-> <<errorHandler(ErrorResponse("Forbidden", 401))>>]
    ELSE [profile |-> patientProfile, sent |-> <<>>]

\* What a handler did: the writes to res in order, the collections afterwards, the
\* documents it answered with and the number of calls to the prediction service.
Done(sent, newProfiles, newRecords, newMeds, data, ml) ==
    [sent |-> sent, profiles |-> newProfiles, records |-> newRecords, meds |-> newMeds,
     data |-> data, ml |-> ml, mlInput |-> NoDoc]

\* the same with the input the one call to the prediction service was made with
Called(done, mlInputData) == [done EXCEPT !.mlInput = mlInputData]

Reply(sent) == Done(sent, profiles, records, meds, <<>>, 0)

\* createHealthRecord does not look at what the helper returned
createHealthRecord(user, patientId, body) ==
    LET access == checkPatientProfileAccess(user, patientId)
        doc == HealthRecordDoc(body, patientId)
    IN  IF HealthRecordCreateErrors(doc) # {}
        THEN Reply(Throw(access.sent, ValidationError))
        ELSE Done(Send(access.sent, Created201), profiles, Inserted(records, doc), meds,
                  <<Len(records) + 1>>, 0)

\* the ids of the patient's records, of one type when `type` is not Absent
RecordsOf(patientId, type) ==
    {i \in Ids(records) : /\ records[i].patientId = patientId
                          /\ (Present(type) => records[i].type = type)}

TimeOf(i) == records[i].recordedAt.n

\* type.toLowerCase() of the :type parameter
toLowerCase(type) ==
    IF type = "GLUCOSE" THEN "glucose"
    ELSE IF type = "Blood_Pressure" THEN "blood_pressure"
    ELSE type

\* .sort({ recordedAt: -1 }): every order of S with recordedAt descending (the
\* order of two records of the same recordedAt is the database's choice)
RECURSIVE SortByRecordedAtDesc(_)
SortByRecordedAtDesc(S) ==
    IF S = {} THEN {<<>>}
    ELSE UNION { { <<i>> \o rest : rest \in SortByRecordedAtDesc(S \ {i}) }
                 : i \in {m \in S : \A j \in S : TimeOf(j) <= TimeOf(m)} }

\* (a variant that answers in insertion order)
findUnsorted(patientId, type) == {NaturalOrder(RecordsOf(patientId, type))}

\* HealthRecord.find({ patientId[, type] }).sort({ recordedAt: -1 }): the orders
\* the query can answer in
findSorted(patientId, type) == SortByRecordedAtDesc(RecordsOf(patientId, type))

\* getHealthRecordsForPatient and getHealthRecordsByTypeForPatient (type given):
\* `order` is the order the query answered in
getHealthRecordsForPatient(user, patientId, type, order) ==
    LET access == checkPatientProfileAccess(user, patientId)
    IN  Done(Send(access.sent, Ok200), profiles, records, meds, order, 0)

getHealthRecord(user, id) ==
    LET healthRecord == FindById(records, id) IN
    IF healthRecord = NoDoc
    THEN Reply(<<errorHandler(ErrorResponse("NotFound", 404))>>)
    ELSE LET access == checkPatientProfileAccess(user, healthRecord.patientId)
         IN  Done(Send(access.sent, Ok200), profiles, records, meds, <<id>>, 0)

updateHealthRecord(user, id, body) ==
    LET healthRecord == FindById(records, id) IN
    IF healthRecord = NoDoc
    THEN Reply(<<errorHandler(ErrorResponse("NotFound", 404))>>)
    ELSE LET access == checkPatientProfileAccess(user, healthRecord.patientId)
         IN  IF HealthRecordUpdateCastFails(body)
             THEN Reply(Throw(access.sent, CastError))
             ELSE IF HealthRecordUpdateErrors(body) # {}
             THEN Reply(Throw(access.sent, ValidationError))
             ELSE Done(Send(access.sent, Ok200), profiles,
                       [records EXCEPT ![id] = HealthRecordUpdated(healthRecord, body)],
                       meds, <<id>>, 0)

deleteHealthRecord(user, id) ==
    LET healthRecord == FindById(records, id) IN
    IF healthRecord = NoDoc
    THEN Reply(<<errorHandler(ErrorResponse("NotFound", 404))>>)
    ELSE LET access == checkPatientProfileAccess(user, healthRecord.patientId)
         IN  Done(Send(access.sent, Ok200), profiles, Removed(records, id), meds, <<>>, 0)

(***************************************************************************)
(* A route: protect, the validators, handleValidationErrors, the handler.  *)
(* `last` keeps the request, who made it, the owner of the profile it is   *)
(* scoped to (as the request found it) and what was answered: resp is the  *)
(* response the client received, sends the number of writes to res.        *)
(***************************************************************************)
Answered(op, cred, pid, rid, body, g, reached, resp, sends, errors, data, ml, mlInput) ==
    [op |-> op, cred |-> cred.kind, pid |-> pid, rid |-> rid, body |-> body,
     principal |-> IF g.pass THEN g.user.id ELSE cred.id,
     owner |-> OwnerOf(pid), nexts |-> g.nexts, reached |-> reached,
     resp |-> resp, sends |-> sends, errors |-> errors, data |-> data, ml |-> ml,
     mlInput |-> mlInput]

\* A route's chain: protect, the validators (their errors), handleValidationErrors
\* and the handler; `h` is what the handler does with the user protect attached.
Route(op, cred, pid, rid, body, errors, h) ==
    LET g == protect(cred)
        v == handleValidationErrors(errors)
    IN  IF ~g.pass
        THEN /\ last' = Answered(op, cred, pid, rid, body, g, FALSE, g.resp, 1, {}, <<>>, 0, NoDoc)
             /\ UNCHANGED <<profiles, records, meds, flight>>
        ELSE IF ~v.pass
        THEN /\ last' = Answered(op, cred, pid, rid, body, g, FALSE, v.resp, 1, v.errors, <<>>, 0, NoDoc)
             /\ UNCHANGED <<profiles, records, meds, flight>>
        ELSE /\ last' = Answered(op, cred, pid, rid, body, g, TRUE,
                                h.sent[1], Len(h.sent), {}, h.data, h.ml, h.mlInput)
             /\ profiles' = h.profiles
             /\ records' = h.records
             /\ meds' = h.meds
             /\ UNCHANGED flight

\* the profile a request on record `id` is scoped to; 0 when there is no such record
ParentOf(store, id) == IF Exists(store, id) THEN store[id].patientId ELSE 0

(***************************************************************************)
(* Patient profiles: the validators, the schema and the controller.        *)
(***************************************************************************)
Genders == {"Male", "Female", "Other", "Prefer not to say"}

\* validatePatientProfile (the optional diagnoses, allergies and medicalHistory
\* chains check lengths only and are left out with their fields)
validatePatientProfile(body) ==
    (IF ~IsStr(body.name) \/ body.name = Str(EmptyText)
        THEN {Err("name", "name is required")} ELSE {})
    \cup (IF body.name = Str(LongText) THEN {Err("name", "name too long")} ELSE {})
    \cup (IF ~IsDate(body.dateOfBirth) THEN {Err("dateOfBirth", "invalid date format")} ELSE {})
    \cup (IF InFuture(body.dateOfBirth) THEN {Err("dateOfBirth", "date in the future")} ELSE {})
    \cup (IF ~(IsStr(body.gender) /\ body.gender.s \in Genders)
        THEN {Err("gender", "invalid gender")} ELSE {})

\* new PatientProfile(body)
PatientProfileDoc(body, userId) ==
    [k |-> "profile",
     userId |-> userId,
     name |-> PathOf(body.name),
     dateOfBirth |-> PathOf(body.dateOfBirth),
     gender |-> PathOf(body.gender),
     healthRecords |-> <<>>,
     currentMedications |-> <<>>]

PatientProfileCreateErrors(doc) ==
    (IF MissingText(doc.name) THEN {Err("name", "required")} ELSE {})
    \cup (IF doc.name = Str(LongText) THEN {Err("name", "maxlength")} ELSE {})
    \cup (IF ~IsDate(doc.dateOfBirth) THEN {Err("dateOfBirth", "required")} ELSE {})
    \cup (IF ~(IsStr(doc.gender) /\ doc.gender.s \in Genders) THEN {Err("gender", "enum")} ELSE {})

\* update validators: on the paths of the body alone
PatientProfileUpdateErrors(body) ==
    (IF body.name = Str(LongText) THEN {Err("name", "maxlength")} ELSE {})
    \cup (IF Present(body.name) /\ MissingText(body.name) THEN {Err("name", "required")} ELSE {})
    \cup (IF body.dateOfBirth = NullV THEN {Err("dateOfBirth", "required")} ELSE {})
    \cup (IF Present(body.gender) /\ ~(IsStr(body.gender) /\ body.gender.s \in Genders)
          THEN {Err("gender", "enum")} ELSE {})

\* the $set of findByIdAndUpdate(id, req.body): every schema path of the body
PatientProfileUpdated(stored, body) ==
    [k |-> "profile",
     userId |-> IF Present(body.userId) THEN body.userId.s ELSE stored.userId,
     name |-> Merge(stored, body, "name"),
     dateOfBirth |-> Merge(stored, body, "dateOfBirth"),
     gender |-> Merge(stored, body, "gender"),
     healthRecords |-> IF Present(body.healthRecords) THEN body.healthRecords.items
                       ELSE stored.healthRecords,
     currentMedications |-> stored.currentMedications]

\* (a variant that keeps the userId of the body when it has one)
createPatientProfileTrusting(user, body) ==
    LET owned == IF Present(body.userId) THEN body ELSE [body EXCEPT !.userId = Str(user.id)]
        doc == PatientProfileDoc(owned, owned.userId.s)
    IN  IF PatientProfileCreateErrors(doc) # {}
        THEN Reply(Throw(<<>>, ValidationError))
        ELSE Done(Send(<<>>, Created201), Inserted(profiles, doc), records, meds,
                  <<Len(profiles) + 1>>, 0)

\* req.body.userId = req.user.id, then PatientProfile.create(req.body)
createPatientProfile(user, body) ==
    LET owned == [body EXCEPT !.userId = Str(user.id)]
        doc == PatientProfileDoc(owned, owned.userId.s)
    IN  IF PatientProfileCreateErrors(doc) # {}
        THEN Reply(Throw(<<>>, ValidationError))
        ELSE Done(Send(<<>>, Created201), Inserted(profiles, doc), records, meds,
                  <<Len(profiles) + 1>>, 0)

\* (a variant that answers an admin with every profile)
getPatientProfilesOfAll(user) ==
    Done(Send(<<>>, Ok200), profiles, records, meds,
         NaturalOrder({i \in Ids(profiles) : profiles[i].userId = user.id \/ user.role = "admin"}), 0)

\* PatientProfile.find({ userId: req.user.id })
getPatientProfiles(user) ==
    Done(Send(<<>>, Ok200), profiles, records, meds,
         NaturalOrder({i \in Ids(profiles) : profiles[i].userId = user.id}), 0)

\* the profile is read with populate('userId', ...): the owner check compares the
\* text of the populated user document
getPatientProfile(user, id) ==
    LET patient == FindById(profiles, id) IN
    IF patient = NoDoc
    THEN Reply(<<errorHandler(ErrorResponse("NotFound", 404))>>)
    ELSE IF NotAuthorized(PopulatedOwnerText(patient), user)
    THEN Reply(<<errorHandler(ErrorResponse("Forbidden", 401))>>)
    ELSE Done(Send(<<>>, Ok200), profiles, records, meds, <<id>>, 0)

updatePatientProfile(user, id, body) ==
    LET patient == FindById(profiles, id) IN
    IF patient = NoDoc
    THEN Reply(<<errorHandler(ErrorResponse("NotFound", 404))>>)
    ELSE IF NotAuthorized(OwnerText(patient), user)
    THEN Reply(<<errorHandler(ErrorResponse("Forbidden", 401))>>)
    ELSE IF PatientProfileUpdateErrors(body) # {}
    THEN Reply(Throw(<<>>, ValidationError))
    ELSE Done(Send(<<>>, Ok200),
              [profiles EXCEPT ![id] = PatientProfileUpdated(patient, body)],
              records, meds, <<id>>, 0)

\* patient.deleteOne(): the records and medications of the profile stay
deletePatientProfile(user, id) ==
    LET patient == FindById(profiles, id) IN
    IF patient = NoDoc
    THEN Reply(<<errorHandler(ErrorResponse("NotFound", 404))>>)
    ELSE IF NotAuthorized(OwnerText(patient), user)
    THEN Reply(<<errorHandler(ErrorResponse("Forbidden", 401))>>)
    ELSE Done(Send(<<>>, Ok200), Removed(profiles, id), records, meds, <<>>, 0)

(***************************************************************************)
(* Medications: the declared validators, the schema with its hooks and the *)
(* controller.                                                             *)
(***************************************************************************)
Statuses == {"active", "discontinued", "completed"}

RequiredText(body, field) ==
    (IF ~IsStr(body[field]) \/ body[field] = Str(EmptyText)
        THEN {Err(field, "is required")} ELSE {})
    \cup (IF body[field] = Str(LongText) THEN {Err(field, "too long")} ELSE {})

\* validateMedication: the rule set declared for medication creation and update
validateMedication(body) ==
    RequiredText(body, "name") \cup RequiredText(body, "dosage")
    \cup RequiredText(body, "frequency")
    \cup (IF ~IsDate(body.startDate) THEN {Err("startDate", "invalid date format")} ELSE {})
    \cup (IF ~IsDate(body.startDate) THEN {Err("startDate", "start date is required")} ELSE {})
    \cup (IF Present(body.endDate) /\ ~IsDate(body.endDate)
          THEN {Err("endDate", "invalid date format")} ELSE {})
    \cup (IF IsDate(body.endDate) /\ IsDate(body.startDate) /\ body.endDate.n < body.startDate.n
          THEN {Err("endDate", "end date before start date")} ELSE {})
    \cup (IF Present(body.status) /\ ~(IsStr(body.status) /\ body.status.s \in Statuses)
          THEN {Err("status", "invalid status")} ELSE {})

\* new Medication({ patientId, name, dosage, frequency, instructions, startDate, endDate, status })
MedicationDoc(body, patientId) ==
    [k |-> "medication",
     patientId |-> patientId,
     name |-> PathOf(body.name),
     dosage |-> PathOf(body.dosage),
     frequency |-> PathOf(body.frequency),
     startDate |-> PathOf(body.startDate),
     endDate |-> PathOf(body.endDate),
     status |-> IF Present(body.status) THEN body.status ELSE Str("active")]

\* document validation of the Medication schema; the endDate validator reads
\* this.startDate of the document
MedicationCreateErrors(doc) ==
    UNION { (IF MissingText(doc[f]) THEN {Err(f, "required")} ELSE {})
            \cup (IF doc[f] = Str(LongText) THEN {Err(f, "maxlength")} ELSE {})
            : f \in {"name", "dosage", "frequency"} }
    \cup (IF ~IsDate(doc.startDate) THEN {Err("startDate", "required")} ELSE {})
    \cup (IF IsStr(doc.endDate) THEN {Err("endDate", "cast")} ELSE {})
    \cup (IF IsDate(doc.startDate) /\ IsDate(doc.endDate) /\ doc.endDate.n < doc.startDate.n
          THEN {Err("endDate", "before start date")} ELSE {})
    \cup (IF HasValue(doc.status) /\ ~(IsStr(doc.status) /\ doc.status.s \in Statuses)
          THEN {Err("status", "enum")} ELSE {})

MedicationUpdateCastFails(body) ==
    \E f \in {"startDate", "endDate"} : IsStr(body[f])

\* update validators: on the paths of the body; the endDate validator runs with
\* `this` the query, which has no startDate
MedicationUpdateErrors(body) ==
    UNION { (IF body[f] = Str(LongText) THEN {Err(f, "maxlength")} ELSE {})
            \cup (IF Present(body[f]) /\ MissingText(body[f]) THEN {Err(f, "required")} ELSE {})
            : f \in {"name", "dosage", "frequency"} }
    \cup (IF body.startDate = NullV THEN {Err("startDate", "required")} ELSE {})
    \cup (IF HasValue(body.status) /\ ~(IsStr(body.status) /\ body.status.s \in Statuses)
          THEN {Err("status", "enum")} ELSE {})

MedicationUpdated(stored, body) ==
    [k |-> "medication",
     patientId |-> IF Present(body.patientId) THEN body.patientId.n ELSE stored.patientId,
     name |-> Merge(stored, body, "name"),
     dosage |-> Merge(stored, body, "dosage"),
     frequency |-> Merge(stored, body, "frequency"),
     startDate |-> Merge(stored, body, "startDate"),
     endDate |-> Merge(stored, body, "endDate"),
     status |-> Merge(stored, body, "status")]

Has(list, x) == \E i \in 1..Len(list) : list[i] = x
Without(list, x) == SelectSeq(list, LAMBDA y : y # x)

\* MedicationSchema.statics.updatePatientMedications: reads the profile anew and
\* saves it; a missing profile is logged and skipped
updatePatientMedications(store, patientId, medicationId, action) ==
    IF ~Exists(store, patientId) THEN store
    ELSE LET list == store[patientId].currentMedications
         IN  [store EXCEPT ![patientId].currentMedications =
                IF action = "add"
                THEN (IF Has(list, medicationId) THEN list ELSE Append(list, medicationId))
                ELSE Without(list, medicationId)]

\* the handlers of the medication controller answer by themselves (try/catch)
Fail(resp) == Reply(<<resp>>)

\* the catch block of the handler: what it answers for what was thrown
MedicationCatch(err, castStatus) ==
    IF err.name = "ValidationError" THEN SchemaValidation400
    ELSE IF err.name = "CastError" /\ castStatus = 400 THEN BadRequest400
    ELSE Server500

addMedication(user, patientId, body) ==
    IF patientId = 0 THEN Fail(MedicationCatch(CastError, 500))
    ELSE LET patientProfile == FindById(profiles, patientId) IN
    IF patientProfile = NoDoc THEN Fail(NotFound404)
    ELSE IF NotAuthorized(OwnerText(patientProfile), user) THEN Fail(Forbidden401)
    ELSE LET doc == MedicationDoc(body, patientId)
             id == Len(meds) + 1
         IN  IF MedicationCreateErrors(doc) # {}
             THEN Fail(MedicationCatch(ValidationError, 500))
             ELSE \* Medication.create, its post('save') hook, then the push and save
                  \* of the profile the handler read before the create
                  LET hooked == updatePatientMedications(profiles, patientId, id, "add")
                      pushed == [hooked EXCEPT ![patientId].currentMedications =
                                    Append(hooked[patientId].currentMedications, id)]
                  IN  Done(<<Created201>>, pushed, records, Inserted(meds, doc), <<id>>, 0)

getMedicationsForPatient(user, patientId) ==
    IF patientId = 0 THEN Fail(MedicationCatch(CastError, 500))
    ELSE LET patientProfile == FindById(profiles, patientId) IN
    IF patientProfile = NoDoc THEN Fail(NotFound404)
    ELSE IF NotAuthorized(OwnerText(patientProfile), user) THEN Fail(Forbidden401)
    ELSE Done(<<Ok200>>, profiles, records, meds,
              NaturalOrder({i \in Ids(meds) : meds[i].patientId = patientId}), 0)

\* the ownership check shared by getMedication, updateMedication and deleteMedication
MedicationRefused(user, medication) ==
    LET patientProfile == FindById(profiles, medication.patientId) IN
    patientProfile = NoDoc \/ NotAuthorized(OwnerText(patientProfile), user)

getMedication(user, id) ==
    IF id = 0 THEN Fail(MedicationCatch(CastError, 400))
    ELSE LET medication == FindById(meds, id) IN
    IF medication = NoDoc THEN Fail(NotFound404)
    ELSE IF MedicationRefused(user, medication) THEN Fail(Forbidden401)
    ELSE Done(<<Ok200>>, profiles, records, meds, <<id>>, 0)

updateMedication(user, id, body) ==
    IF id = 0 THEN Fail(MedicationCatch(CastError, 400))
    ELSE LET medication == FindById(meds, id) IN
    IF medication = NoDoc THEN Fail(NotFound404)
    ELSE IF MedicationRefused(user, medication) THEN Fail(Forbidden401)
    ELSE IF MedicationUpdateCastFails(body) THEN Fail(MedicationCatch(CastError, 400))
    ELSE IF MedicationUpdateErrors(body) # {} THEN Fail(MedicationCatch(ValidationError, 400))
    ELSE Done(<<Ok200>>, profiles, records,
              [meds EXCEPT ![id] = MedicationUpdated(medication, body)], <<id>>, 0)

deleteMedication(user, id) ==
    IF id = 0 THEN Fail(MedicationCatch(CastError, 400))
    ELSE LET medication == FindById(meds, id) IN
    IF medication = NoDoc THEN Fail(NotFound404)
    ELSE IF MedicationRefused(user, medication) THEN Fail(Forbidden401)
    ELSE \* the pull and save of the profile, then deleteOne with its pre hook
         LET pulled == [profiles EXCEPT ![medication.patientId].currentMedications =
                            Without(@, id)]
             hooked == updatePatientMedications(pulled, medication.patientId, id, "remove")
         IN  Done(<<Ok200>>, hooked, records, Removed(meds, id), <<>>, 0)

(***************************************************************************)
(* The prediction service and the two operations that call it.             *)
(***************************************************************************)
\* the eleven features of the prediction input, with the range each validator
\* of validateHealthData allows (isInt, isFloat and isIn on whole numbers)
Features == {"age", "gender", "height", "weight", "ap_hi", "ap_lo",
             "cholesterol", "gluc", "smoke", "alco", "active"}

FeatureRange ==
    [age |-> <<0, 120>>, gender |-> <<0, 1>>, height |-> <<50, 250>>,
     weight |-> <<20, 300>>, ap_hi |-> <<50, 300>>, ap_lo |-> <<30, 200>>,
     cholesterol |-> <<1, 3>>, gluc |-> <<1, 3>>, smoke |-> <<0, 1>>,
     alco |-> <<0, 1>>, active |-> <<0, 1>>]

\* a JSON string of digits, which isInt and isFloat accept as they accept a number
NumStr(n) == [k |-> "numstr", n |-> n]

InRange(v, range) == v.k \in {"num", "numstr"} /\ range[1] <= v.n /\ v.n <= range[2]

validateHealthData(id, body) ==
    validateObjectIdParam("id", id)
    \cup { Err(f, "out of range") : f \in {g \in Features : ~InRange(body[g], FeatureRange[g])} }
    \cup NotesErrors(body)

\* What axios.post to the prediction service ends in: a response (of a 2xx status
\* or another one) with its parsed body, no response to the request that was sent
\* (error.request), or a failure before anything was sent.
UpstreamResponse(status, data) == [k |-> "response", status |-> status, data |-> data]
UpstreamNoResponse == [k |-> "request", status |-> 0, data |-> NullV]
UpstreamSetupFailure == [k |-> "setup", status |-> 0, data |-> NullV]

\* the body of a response of the service: a prediction, or an object with or
\* without an `error` text (NullV stands for the JSON body null)
Prediction(class, probabilities, alert) ==
    [k |-> "prediction", class |-> class, probabilities |-> probabilities, alert |-> alert]
ErrorBody(error) == [k |-> "body", error |-> error]

\* the error object the adapter returns; status 0 stands for no status field
MlError(error, status) == [k |-> "error", error |-> error, status |-> status]
\* the adapter's catch block threw itself
MlThrown == [k |-> "thrown", error |-> "TypeError", status |-> 0]

\* mlService.predictCvdRisk: the body of a 2xx response as it is; of another
\* response an error object with its status, reading `error.response.data.error`
\* (which throws on a null body); otherwise an error object without a status
mlServicePredictCvdRisk(upstream) ==
    IF upstream.k = "response" /\ upstream.status \in 200..299 THEN upstream.data
    ELSE IF upstream.k = "response"
    THEN IF upstream.data = NullV THEN MlThrown
         ELSE MlError("ML service error: " \o (IF IsStr(upstream.data.error) /\ upstream.data.error.s # ""
                                                THEN upstream.data.error.s
                                                ELSE "Unknown error"),
                      upstream.status)
    ELSE IF upstream.k = "request" THEN MlError("ML service is unreachable", 0)
    ELSE MlError("Error processing ML request", 0)

\* new ErrorResponse(mlResponse.error, mlResponse.status || 500)
MlFailure(outcome) ==
    ErrorResponse(outcome.error, IF outcome.status = 0 THEN 500 ELSE outcome.status)

\* a TypeError thrown inside a handler
TypeError == [name |-> "TypeError", kind |-> "InternalError", statusCode |-> 0]

\* Number(x) of a body field
NumberOf(v) == IF v.k \in {"num", "numstr"} THEN Num(v.n) ELSE NullV

\* mlInputData: Number(x) of each of the eleven features
mlInputData(given) == [f \in Features |-> NumberOf(given[f])]

\* (a variant that takes the height for metres)
BmiOfMetres(weight, height) ==
    IF IsNum(weight) /\ IsNum(height) /\ height.n # 0
    THEN Num((weight.n * 100) \div (height.n * height.n))
    ELSE NullV

\* weight / ((height / 100) ** 2), kept to two decimal places as a whole number
\* of hundredths (a height of 0 gives Infinity, which is no stored number)
Bmi(weight, height) ==
    IF IsNum(weight) /\ IsNum(height) /\ height.n # 0
    THEN Num((weight.n * 1000000) \div (height.n * height.n))
    ELSE NullV

\* the entry recordPatientHealthData pushes on patient.healthRecords
Snapshot(body, outcome) ==
    [k |-> "snapshot", date |-> Now,
     input |-> mlInputData(body),
     bmi |-> Bmi(NumberOf(body.weight), NumberOf(body.height)),
     cvdPredictionClass |-> outcome.class,
     cvdPredictionProbabilities |-> outcome.probabilities,
     cvdAlertTriggered |-> outcome.alert,
     notes |-> PathOf(body.notes)]

\* validation of the pushed entry on patient.save()
SnapshotErrors(snapshot) ==
    { Err(f, "required") : f \in {g \in Features : ~IsNum(snapshot.input[g])} }
    \cup { Err(f, "enum") : f \in {g \in Features \ {"age", "height", "weight", "ap_hi", "ap_lo"} :
                                    /\ IsNum(snapshot.input[g])
                                    /\ ~InRange(snapshot.input[g], FeatureRange[g])} }
    \cup (IF snapshot.cvdPredictionClass \notin {0, 1}
          THEN {Err("cvdPredictionClass", "enum")} ELSE {})
    \cup (IF snapshot.notes = Str(LongText) THEN {Err("notes", "maxlength")} ELSE {})

\* What a handler does when no prediction arrived.  A throw of the adapter and a
\* null body (whose `.error` cannot be read) reject the handler's promise; on
\* `if (mlPrediction.error)` the adapter's error object, or a 2xx body that carries
\* an `error` text itself, is passed on as an ErrorResponse.
PredictionFailed(outcome) ==
    IF outcome.k = "thrown" \/ outcome = NullV
    THEN Throw(<<>>, TypeError)
    ELSE <<errorHandler(MlFailure(IF outcome.k = "error" THEN outcome
                                  ELSE MlError(outcome.error.s, 0)))>>

recordPatientHealthData(user, id, body, outcome) ==
    LET patient == FindById(profiles, id) IN
    IF patient = NoDoc
    THEN Reply(<<errorHandler(ErrorResponse("NotFound", 404))>>)
    ELSE IF NotAuthorized(OwnerText(patient), user)
    THEN Reply(<<errorHandler(ErrorResponse("Forbidden", 401))>>)
    ELSE Called(
         IF outcome.k # "prediction"
         THEN Done(PredictionFailed(outcome), profiles, records, meds, <<>>, 1)
         ELSE LET snapshot == Snapshot(body, outcome) IN
              IF SnapshotErrors(snapshot) # {}
              THEN Done(Throw(<<>>, ValidationError), profiles, records, meds, <<>>, 1)
              ELSE Done(Send(<<>>, Ok200),
                        [profiles EXCEPT ![id].healthRecords = Append(@, snapshot)],
                        records, meds, <<snapshot>>, 1),
         mlInputData(body))

\* (a variant that reads the pressure of the oldest record the query answered)
predictCvdRiskOldest(user, patientId, body, order, outcome) ==
    LET access == checkPatientProfileAccess(user, patientId) IN
    IF access.profile = NoDoc THEN Reply(access.sent)
    ELSE IF order = <<>>
    THEN Reply(<<errorHandler(ErrorResponse("BadRequest", 400))>>)
    ELSE LET oldestBpRecord == records[order[Len(order)]]
             given == [f \in Features |->
                         IF f = "ap_hi" THEN oldestBpRecord.systolic
                         ELSE IF f = "ap_lo" THEN oldestBpRecord.diastolic
                         ELSE body[f]]
         IN  IF \E f \in Features : ~HasValue(given[f])
             THEN Reply(<<errorHandler(ErrorResponse("BadRequest", 400))>>)
             ELSE Called(
                  IF outcome.k # "prediction"
                  THEN Done(PredictionFailed(outcome), profiles, records, meds, <<>>, 1)
                  ELSE Done(Send(<<>>, Ok200), profiles, records, meds, <<order[Len(order)]>>, 1),
                  mlInputData(given))

\* predictCvdRisk is the one handler that stops when the helper returned nothing;
\* `order` is the order the query for the latest blood_pressure record answered in
predictCvdRisk(user, patientId, body, order, outcome) ==
    LET access == checkPatientProfileAccess(user, patientId) IN
    IF access.profile = NoDoc THEN Reply(access.sent)
    ELSE IF order = <<>>
    THEN Reply(<<errorHandler(ErrorResponse("BadRequest", 400))>>)
    ELSE LET latestBpRecord == records[order[1]]
             given == [f \in Features |->
                         IF f = "ap_hi" THEN latestBpRecord.systolic
                         ELSE IF f = "ap_lo" THEN latestBpRecord.diastolic
                         ELSE body[f]]
         IN  IF \E f \in Features : ~HasValue(given[f])
             THEN Reply(<<errorHandler(ErrorResponse("BadRequest", 400))>>)
             ELSE Called(
                  IF outcome.k # "prediction"
                  THEN Done(PredictionFailed(outcome), profiles, records, meds, <<>>, 1)
                  ELSE Done(Send(<<>>, Ok200), profiles, records, meds, <<order[1]>>, 1),
                  mlInputData(given))

(***************************************************************************)
(* Requests.                                                               *)
(***************************************************************************)
HRBody(type, recordedAt, value, unit, systolic, diastolic) ==
    [type |-> type, recordedAt |-> recordedAt, value |-> value, unit |-> unit,
     systolic |-> systolic, diastolic |-> diastolic, notes |-> Absent, patientId |-> Absent]

ProfileBody(name, dateOfBirth, gender) ==
    [name |-> name, dateOfBirth |-> dateOfBirth, gender |-> gender,
     userId |-> Absent, healthRecords |-> Absent]

MedBody(name, startDate, endDate) ==
    [name |-> name, dosage |-> Str("1 pill"), frequency |-> Str("daily"),
     startDate |-> startDate, endDate |-> endDate, status |-> Absent, patientId |-> Absent]

HealthDataBody(age, height, weight, ap_hi) ==
    [age |-> age, gender |-> Num(1), height |-> height, weight |-> weight,
     ap_hi |-> ap_hi, ap_lo |-> Num(80), cholesterol |-> Num(1), gluc |-> Num(1),
     smoke |-> Num(0), alco |-> Num(0), active |-> Num(1), notes |-> Absent]

\* the body of a prediction request: the fields of a health-record body and the
\* features the handler reads from it
PredictBody(hr, data) == hr @@ data

NoBody == [k |-> "nobody"]

(***************************************************************************)
(* The routes (one action each).                                           *)
(***************************************************************************)
\* POST /api/patients
PostPatient(cred, body) ==
    /\ Len(profiles) < MaxProfiles
    /\ Route("createPatientProfile", cred, 0, 0, body, validatePatientProfile(body),
             createPatientProfile(protect(cred).user, body))

\* DELETE /api/patients/:id
DeletePatient(cred, id) ==
    Route("deletePatientProfile", cred, id, 0, NoBody, validateObjectIdParam("id", id),
          deletePatientProfile(protect(cred).user, id))

\* POST /api/patients/:patientId/healthrecords
PostHealthRecord(cred, patientId, body) ==
    /\ Len(records) < MaxRecords
    /\ Route("createHealthRecord", cred, patientId, 0, body,
             validateObjectIdParam("patientId", patientId) \cup validateHealthRecordBody(body),
             createHealthRecord(protect(cred).user, patientId, body))

\* GET /api/patients/:patientId/healthrecords
GetHealthRecords(cred, patientId) ==
    \E order \in findSorted(patientId, Absent) :
        Route("getHealthRecordsForPatient", cred, patientId, 0, NoBody,
              validateObjectIdParam("patientId", patientId),
              getHealthRecordsForPatient(protect(cred).user, patientId, Absent, order))

\* GET /api/patients/:patientId/healthrecords/type/:type
GetHealthRecordsByType(cred, patientId, type) ==
    \E order \in findSorted(patientId, Str(toLowerCase(type))) :
        Route("getHealthRecordsByTypeForPatient", cred, patientId, 0, Str(type),
              validateObjectIdParam("patientId", patientId),
              getHealthRecordsForPatient(protect(cred).user, patientId,
                                         Str(toLowerCase(type)), order))

\* GET /api/healthrecords/:id
GetHealthRecord(cred, id) ==
    Route("getHealthRecord", cred, ParentOf(records, id), id, NoBody,
          validateObjectIdParam("id", id),
          getHealthRecord(protect(cred).user, id))

\* PUT /api/healthrecords/:id
PutHealthRecord(cred, id, body) ==
    Route("updateHealthRecord", cred, ParentOf(records, id), id, body,
          validateObjectIdParam("id", id) \cup validateHealthRecordBody(body),
          updateHealthRecord(protect(cred).user, id, body))

\* DELETE /api/healthrecords/:id
DeleteHealthRecord(cred, id) ==
    Route("deleteHealthRecord", cred, ParentOf(records, id), id, NoBody,
          validateObjectIdParam("id", id),
          deleteHealthRecord(protect(cred).user, id))

\* GET /api/patients
GetPatients(cred) ==
    Route("getPatientProfiles", cred, 0, 0, NoBody, {},
          getPatientProfiles(protect(cred).user))

\* GET /api/patients/:id
GetPatient(cred, id) ==
    Route("getPatientProfile", cred, id, 0, NoBody, validateObjectIdParam("id", id),
          getPatientProfile(protect(cred).user, id))

\* PUT /api/patients/:id
PutPatient(cred, id, body) ==
    Route("updatePatientProfile", cred, id, 0, body, validatePatientProfile(body),
          updatePatientProfile(protect(cred).user, id, body))

\* POST /api/patients/:id/health-data
PostHealthData(cred, id, body, outcome) ==
    /\ Exists(profiles, id) => Len(profiles[id].healthRecords) < MaxSnapshots
    /\ Route("recordPatientHealthData", cred, id, 0, body, validateHealthData(id, body),
             recordPatientHealthData(protect(cred).user, id, body, outcome))

\* POST /api/patients/:patientId/healthrecords/predict-cvd-risk
PostPredictCvdRisk(cred, patientId, body, outcome) ==
    \E order \in findSorted(patientId, Str("blood_pressure")) :
        Route("predictCvdRisk", cred, patientId, 0, body, validateHealthRecordBody(body),
              predictCvdRisk(protect(cred).user, patientId, body, order, outcome))

\* POST /api/patients/:patientId/medications
PostMedication(cred, patientId, body) ==
    /\ Len(meds) < MaxMeds
    /\ Route("addMedication", cred, patientId, 0, body, {},
             addMedication(protect(cred).user, patientId, body))

\* GET /api/patients/:patientId/medications
GetMedications(cred, patientId) ==
    Route("getMedicationsForPatient", cred, patientId, 0, NoBody, {},
          getMedicationsForPatient(protect(cred).user, patientId))

\* GET /api/patients/:patientId/medications/:id
GetMedication(cred, id) ==
    Route("getMedication", cred, ParentOf(meds, id), id, NoBody, {},
          getMedication(protect(cred).user, id))

\* PUT /api/patients/:patientId/medications/:id
PutMedication(cred, id, body) ==
    Route("updateMedication", cred, ParentOf(meds, id), id, body, {},
          updateMedication(protect(cred).user, id, body))

\* DELETE /api/patients/:patientId/medications/:id
DeleteMedication(cred, id) ==
    Route("deleteMedication", cred, ParentOf(meds, id), id, NoBody, {},
          deleteMedication(protect(cred).user, id))

(***************************************************************************)
(* The initial state: empty collections, no request answered yet.          *)
(***************************************************************************)
NoRequest ==
    [op |-> "none", cred |-> "missing", pid |-> 0, rid |-> 0, body |-> NoBody,
     principal |-> None, owner |-> None, nexts |-> 0, reached |-> FALSE,
     resp |-> NoDoc, sends |-> 0, errors |-> {}, data |-> <<>>, ml |-> 0,
     mlInput |-> NoDoc]

\* the concurrent requests the server can be handling, and one not yet arrived
Writers == 1..MaxWriters

NotArrived ==
    [pc |-> "idle", op |-> "none", user |-> NoDoc, id |-> 0, body |-> NoBody,
     doc |-> NoDoc, hookDoc |-> NoDoc, pushed |-> <<>>, med |-> 0, calls |-> 0,
     resp |-> NoDoc]

Init ==
    /\ profiles = <<>>
    /\ records = <<>>
    /\ meds = <<>>
    /\ last = NoRequest
    /\ flight = [w \in Writers |-> NotArrived]

(***************************************************************************)
(* The inputs the specifications draw from.                                *)
(***************************************************************************)
Owner == ValidCred("u1")
Stranger == ValidCred("u2")
Admin == ValidCred("adm")

GoodProfile == ProfileBody(Str("Ann"), Num(1), Str("Female"))

\* health-record bodies: every combination of a present or absent field, with
\* one good and one bad value for the checked fields
RecordBodies ==
    { HRBody(t, Num(1), v, u, s, d) :
        t \in {Str("blood_pressure"), Str("glucose"), Str("symptom_log")},
        v \in {Absent, Num(5)},
        u \in {Absent, Str("mg")},
        s \in {Absent, Num(120), Num(-1)},
        d \in {Absent, Num(80)} }

GoodBp == HRBody(Str("blood_pressure"), Num(1), Absent, Absent, Num(120), Num(80))
GoodGlucose == HRBody(Str("glucose"), Num(2), Num(5), Str("mg"), Absent, Absent)
\* a body that breaks several rules at once: an unknown type, a date in the
\* future, a value that is no number and a negative systolic
BadRecord == HRBody(Str("pulse"), Num(MaxTime + 1), Str("high"), Absent, Num(-1), Absent)

BadProfile == ProfileBody(Str(EmptyText), Absent, Str("Unknown"))

GoodHealthData == HealthDataBody(Num(40), Num(170), Num(70), Num(120))
BadHealthData == HealthDataBody(Num(130), Num(170), Num(10), Absent)

GoodMed == MedBody(Str("Aspirin"), Num(2), Num(3))
\* a medication that ends before it starts
BadMed == MedBody(Str("Aspirin"), Num(2), Num(1))
\* an update of the end date alone
EndDateOnly == [MedBody(Absent, Absent, Num(1)) EXCEPT !.dosage = Absent, !.frequency = Absent]

GoodPredict == PredictBody(GoodBp, GoodHealthData)

\* probabilities in percent
Probabilities(low, high) == [low_risk_proba |-> low, high_risk_proba |-> high]
GoodPrediction == Prediction(1, Probabilities(20, 80), TRUE)
LowPrediction == Prediction(0, Probabilities(90, 10), FALSE)
\* what the adapter makes of a 503 of the service and of no response
ServiceDown == mlServicePredictCvdRisk(UpstreamResponse(503, ErrorBody(Str("model not loaded"))))
Unreachable == mlServicePredictCvdRisk(UpstreamNoResponse)

(***************************************************************************)
(* SpecRecords: the owner writes health records of every shape.            *)
(***************************************************************************)
NextRecords ==
    \/ PostPatient(Owner, GoodProfile)
    \/ \E b \in RecordBodies :
          /\ Exists(profiles, 1) /\ Len(records) < MaxShapedRecords
          /\ PostHealthRecord(Owner, 1, b)
    \/ \E id \in 1..MaxShapedRecords, b \in RecordBodies :
          Exists(profiles, 1) /\ PutHealthRecord(Owner, id, b)
    \/ \E id \in 1..MaxShapedRecords :
          Exists(profiles, 1) /\ DeleteHealthRecord(Owner, id)

SpecRecords == Init /\ [][NextRecords]_vars

(***************************************************************************)
(* The type-conditioned shape of a health record (the data model's rule).  *)
(***************************************************************************)
BloodPressureShape(doc) ==
    /\ HasValue(doc.systolic) /\ HasValue(doc.diastolic)
    /\ ~HasValue(doc.value) /\ ~HasValue(doc.unit)

ValueShape(doc) ==
    /\ IsNum(doc.value)
    /\ HasValue(doc.unit) /\ doc.unit # Str(EmptyText)
    /\ ~HasValue(doc.systolic) /\ ~HasValue(doc.diastolic)

ShapeOk(doc) ==
    /\ doc.type = Str("blood_pressure") => BloodPressureShape(doc)
    /\ (IsStr(doc.type) /\ doc.type.s \in ValueTypes) => ValueShape(doc)

\* C7: every stored HealthRecord of type blood_pressure has systolic and diastolic
\* and neither value nor unit.
C7_BloodPressureRecordsShaped ==
    \A i \in Ids(records) :
        records[i].type = Str("blood_pressure") => BloodPressureShape(records[i])

\* C8: every stored HealthRecord of type glucose, weight or heart_rate has a numeric
\* value and a non-empty unit, and neither systolic nor diastolic.
C8_ValueRecordsShaped ==
    \A i \in Ids(records) :
        (IsStr(records[i].type) /\ records[i].type.s \in ValueTypes) => ValueShape(records[i])

\* C9: an update whose merged result breaks the type-conditioned field rules is
\* answered with ValidationFailed and leaves the stored record as it was.
C9_UpdateValidatesMergedRecord ==
    [][ ( /\ last'.op = "updateHealthRecord"
          /\ Exists(records, last'.rid)
          /\ ~ShapeOk(HealthRecordUpdated(records[last'.rid], last'.body)) )
        => ( /\ last'.resp.kind = "ValidationFailed"
             /\ records' = records ) ]_vars

(***************************************************************************)
(* SpecAccess: an owner, a stranger and an admin use every patient-scoped  *)
(* route, with one body the validators accept and one they refuse.         *)
(***************************************************************************)
MaxAccessProfiles == 1
MaxAccessRecords == 1
MaxAccessMeds == 1

AccessCreds == {Owner, Stranger, Admin}

NextAccess ==
    \/ \E c \in {Owner, Stranger} :
          Len(profiles) < MaxAccessProfiles /\ PostPatient(c, GoodProfile)
    \/ \E c \in AccessCreds : GetPatients(c)
    \/ \E c \in AccessCreds, id \in 1..MaxAccessProfiles : GetPatient(c, id)
    \/ \E c \in AccessCreds, id \in 1..MaxAccessProfiles, b \in {GoodProfile, BadProfile} :
          PutPatient(c, id, b)
    \/ \E c \in AccessCreds, id \in 1..MaxAccessProfiles : DeletePatient(c, id)
    \/ \E c \in AccessCreds, id \in 1..MaxAccessProfiles,
          b \in {GoodHealthData, BadHealthData}, o \in {GoodPrediction, ServiceDown} :
          PostHealthData(c, id, b, o)
    \/ \E c \in AccessCreds, id \in 1..MaxAccessProfiles, b \in {GoodBp, BadRecord} :
          Len(records) < MaxAccessRecords /\ PostHealthRecord(c, id, b)
    \/ \E c \in AccessCreds, id \in 1..MaxAccessProfiles : GetHealthRecords(c, id)
    \/ \E c \in AccessCreds, id \in 1..MaxAccessProfiles :
          GetHealthRecordsByType(c, id, "blood_pressure")
    \/ \E c \in AccessCreds, id \in 1..MaxAccessRecords : GetHealthRecord(c, id)
    \/ \E c \in AccessCreds, id \in 1..MaxAccessRecords, b \in {GoodGlucose, BadRecord} :
          PutHealthRecord(c, id, b)
    \/ \E c \in AccessCreds, id \in 1..MaxAccessRecords : DeleteHealthRecord(c, id)
    \/ \E c \in AccessCreds, id \in 1..MaxAccessProfiles, o \in {GoodPrediction} :
          PostPredictCvdRisk(c, id, GoodPredict, o)
    \/ \E c \in AccessCreds, id \in 1..MaxAccessProfiles, b \in {GoodMed, BadMed} :
          Len(meds) < MaxAccessMeds /\ PostMedication(c, id, b)
    \/ \E c \in AccessCreds, id \in 1..MaxAccessProfiles : GetMedications(c, id)
    \/ \E c \in AccessCreds, id \in 1..MaxAccessMeds : GetMedication(c, id)
    \/ \E c \in AccessCreds, id \in 1..MaxAccessMeds : PutMedication(c, id, EndDateOnly)
    \/ \E c \in AccessCreds, id \in 1..MaxAccessMeds : DeleteMedication(c, id)

SpecAccess == Init /\ [][NextAccess]_vars

(***************************************************************************)
(* Ownership (C1, C2, C3).                                                 *)
(***************************************************************************)
PatientScopedOps ==
    {"getPatientProfile", "updatePatientProfile", "deletePatientProfile",
     "recordPatientHealthData", "createHealthRecord", "getHealthRecordsForPatient",
     "getHealthRecordsByTypeForPatient", "getHealthRecord", "updateHealthRecord",
     "deleteHealthRecord", "predictCvdRisk", "addMedication",
     "getMedicationsForPatient", "getMedication", "updateMedication", "deleteMedication"}

\* the request `l` was made on an existing profile by an authenticated principal
\* who is neither its owner nor an admin
ByNonOwner(l) ==
    /\ l.op \in PatientScopedOps
    /\ l.owner # None
    /\ l.nexts = 1
    /\ l.principal # l.owner
    /\ RoleOf(l.principal) # "admin"

\* ... by its owner or by an admin
ByOwnerOrAdmin(l) ==
    /\ l.op \in PatientScopedOps
    /\ l.owner # None
    /\ l.nexts = 1
    /\ (l.principal = l.owner \/ RoleOf(l.principal) = "admin")

\* C1 (as stated): a principal who is neither the owner nor an admin receives
\* Forbidden on every patient-scoped operation on an existing profile.
C1_NonOwnerForbidden ==
    ByNonOwner(last) => last.resp.kind = "Forbidden"

\* C1 (amended): such a principal is never answered with success; the answer is
\* the ownership refusal whenever the handler is reached, and ValidationFailed
\* when the validators of the route, which run before the handler, refuse the request.
C1_NonOwnerRefused ==
    ByNonOwner(last) =>
        /\ last.resp.kind # "Success"
        /\ last.reached => last.resp = Forbidden401
        /\ ~last.reached => (last.resp = Validation400 /\ last.errors # {})

\* a stranger's request reached a handler of each family and was refused
C1_Witness ==
    /\ ByNonOwner(last)
    /\ last.reached
    /\ last.op = "deleteMedication"
    /\ last.resp = Forbidden401

\* C2: a health-record create, update or delete by a principal who is neither
\* the owner of the parent profile nor an admin leaves the HealthRecord store unchanged.
C2_NonOwnerLeavesRecords ==
    [][ ( /\ ByNonOwner(last')
          /\ last'.op \in {"createHealthRecord", "updateHealthRecord", "deleteHealthRecord"} )
        => records' = records ]_vars

\* C3: the owner of the profile and an admin are never refused on ownership grounds.
C3_OwnerNeverRefused ==
    ByOwnerOrAdmin(last) => last.resp.kind # "Forbidden"

(***************************************************************************)
(* SpecGuard: requests with every kind of credential.                      *)
(***************************************************************************)
NextGuard ==
    \/ \E cred \in Credentials :
          Len(profiles) < MaxAccessProfiles /\ PostPatient(cred, GoodProfile)
    \/ \E cred \in Credentials : GetPatients(cred)
    \/ \E cred \in Credentials, id \in 1..MaxAccessProfiles : GetPatient(cred, id)
    \/ \E cred \in Credentials, id \in 1..MaxAccessProfiles : DeletePatient(cred, id)
    \/ \E cred \in Credentials, id \in 1..MaxAccessProfiles :
          Len(records) < MaxAccessRecords /\ PostHealthRecord(cred, id, GoodBp)
    \/ \E cred \in Credentials, id \in 1..MaxAccessRecords : DeleteHealthRecord(cred, id)
    \/ \E cred \in Credentials, id \in 1..MaxAccessProfiles :
          Len(meds) < MaxAccessMeds /\ PostMedication(cred, id, GoodMed)
    \/ \E cred \in Credentials, id \in 1..MaxAccessMeds : DeleteMedication(cred, id)

SpecGuard == Init /\ [][NextGuard]_vars

\* the request `l` was stopped by the guard with response `resp`
Stopped(l, resp) == l.resp = resp /\ l.nexts = 0 /\ ~l.reached

\* the guard passed the request on, once, as the user the credential names
PassedOn(l) == l.nexts = 1 /\ l.principal \in UserIds /\ l.resp # Unauthenticated401

\* C4 (as stated): the guard answers Unauthenticated (401) and stops the request
\* when the credential is missing, malformed, expired, wrongly signed or names no
\* existing user; otherwise it passes the request on exactly once as that user.
C4_GuardUnauthenticated ==
    [][ last'.op # "none" =>
          IF last'.cred # "valid" \/ last'.principal \notin UserIds
          THEN Stopped(last', Unauthenticated401) /\ UNCHANGED <<profiles, records, meds>>
          ELSE PassedOn(last') ]_vars

\* C4 (amended): as stated, except that a valid credential whose user no longer
\* exists is answered with 404 NotFound; that request is stopped as well.
C4_GuardStops ==
    [][ last'.op # "none" =>
          IF last'.cred # "valid"
          THEN Stopped(last', Unauthenticated401) /\ UNCHANGED <<profiles, records, meds>>
          ELSE IF last'.principal \notin UserIds
          THEN Stopped(last', NotFound404) /\ UNCHANGED <<profiles, records, meds>>
          ELSE PassedOn(last') ]_vars

\* a request with a valid credential of a user that does not exist was stopped
C4_Witness ==
    /\ last.op = "createHealthRecord"
    /\ last.cred = "valid"
    /\ last.principal = GhostId
    /\ Stopped(last, NotFound404)
    /\ Len(profiles) > 0

(***************************************************************************)
(* SpecValidate: the owner sends bodies that keep and that break the       *)
(* declared rules to every mutating route.                                 *)
(***************************************************************************)
ProfileBodies ==
    { ProfileBody(n, d, g) : n \in {Str("Ann"), Str(EmptyText)},
                             d \in {Num(1), Absent},
                             g \in {Str("Female"), Str("Unknown")} }

HealthDataBodies ==
    { HealthDataBody(a, Num(170), w, s) : a \in {Num(40), Num(130)},
                                          w \in {Num(70), Num(10)},
                                          s \in {Num(120), Absent} }

CheckedRecordBodies ==
    { HRBody(t, r, v, Absent, s, Num(80)) :
        t \in {Str("blood_pressure"), Str("pulse")},
        r \in {Num(1), Num(MaxTime + 1), Absent},
        v \in {Absent, Str("high")},
        s \in {Num(120), Num(-1)} }

MedBodies == {GoodMed, BadMed, MedBody(Str(EmptyText), Absent, Num(1))}

NextValidate ==
    \/ \E b \in ProfileBodies :
          Len(profiles) < MaxAccessProfiles /\ PostPatient(Owner, b)
    \/ \E id \in 1..MaxAccessProfiles, b \in ProfileBodies : PutPatient(Owner, id, b)
    \/ \E id \in 0..MaxAccessProfiles, b \in HealthDataBodies,
          o \in {LowPrediction, Unreachable} : PostHealthData(Owner, id, b, o)
    \/ \E id \in 0..MaxAccessProfiles, b \in CheckedRecordBodies :
          Len(records) < MaxAccessRecords /\ PostHealthRecord(Owner, id, b)
    \/ \E id \in 0..MaxAccessRecords, b \in CheckedRecordBodies : PutHealthRecord(Owner, id, b)
    \/ \E id \in 1..MaxAccessProfiles, b \in MedBodies :
          Len(meds) < MaxAccessMeds /\ PostMedication(Owner, id, b)
    \/ \E id \in 1..MaxAccessMeds, b \in MedBodies : PutMedication(Owner, id, b)

SpecValidate == Init /\ [][NextValidate]_vars

MutatingOps ==
    {"createPatientProfile", "updatePatientProfile", "recordPatientHealthData",
     "createHealthRecord", "updateHealthRecord", "addMedication", "updateMedication"}

\* the rule set declared for the endpoint of request `l`, applied to its body
DeclaredErrors(l) ==
    IF l.op \in {"createPatientProfile", "updatePatientProfile"}
    THEN validatePatientProfile(l.body)
    ELSE IF l.op = "recordPatientHealthData" THEN validateHealthData(l.pid, l.body)
    ELSE IF l.op \in {"createHealthRecord", "updateHealthRecord"}
    THEN validateHealthRecordBody(l.body)
    ELSE IF l.op \in {"addMedication", "updateMedication"} THEN validateMedication(l.body)
    ELSE {}

\* C5: on every mutating endpoint, a body that breaks a declared field constraint
\* is answered with ValidationFailed (400), writes nothing and calls no prediction.
C5_ValidationBeforePersistence ==
    [][ ( /\ last'.op \in MutatingOps
          /\ last'.nexts = 1
          /\ DeclaredErrors(last') # {} )
        => ( /\ last'.resp = Validation400
             /\ last'.ml = 0
             /\ UNCHANGED <<profiles, records, meds>> ) ]_vars

\* the validators the route of request `l` runs before handleValidationErrors
RouteErrors(l) ==
    IF l.op \in {"createPatientProfile", "updatePatientProfile"}
    THEN validatePatientProfile(l.body)
    ELSE IF l.op = "recordPatientHealthData" THEN validateHealthData(l.pid, l.body)
    ELSE IF l.op = "createHealthRecord"
    THEN validateObjectIdParam("patientId", l.pid) \cup validateHealthRecordBody(l.body)
    ELSE IF l.op = "updateHealthRecord"
    THEN validateObjectIdParam("id", l.rid) \cup validateHealthRecordBody(l.body)
    ELSE {}

ListBodies ==
    { HRBody(Str("blood_pressure"), Num(t), Absent, Absent, Num(120), Num(80)) : t \in 1..MaxTime }
    \cup {GoodGlucose}

NextList ==
    \/ PostPatient(Owner, GoodProfile)
    \/ \E pid \in 1..MaxProfiles, b \in ListBodies :
          Exists(profiles, pid) /\ PostHealthRecord(Owner, pid, b)
    \/ \E id \in 1..MaxRecords, t \in 1..MaxTime :
          PutHealthRecord(Owner, id, HRBody(Str("blood_pressure"), Num(t), Absent, Absent,
                                            Num(120), Num(80)))
    \/ \E id \in 1..MaxRecords : DeleteHealthRecord(Owner, id)
    \/ \E pid \in 1..MaxProfiles : GetHealthRecords(Owner, pid)
    \/ \E pid \in 1..MaxProfiles, t \in {"blood_pressure", "GLUCOSE"} :
          GetHealthRecordsByType(Owner, pid, t)

SpecList == Init /\ [][NextList]_vars

\* the stored records the list request `l` asks for
Listed(l) ==
    {i \in Ids(records) :
        /\ records[i].patientId = l.pid
        /\ l.op = "getHealthRecordsByTypeForPatient"
              => records[i].type = Str(toLowerCase(l.body.s))}

\* C10: the two lists answer with exactly the stored records of the patient (of
\* the type), each once, ordered by recordedAt descending.
C10_ListSortedAndExact ==
    ( /\ last.op \in {"getHealthRecordsForPatient", "getHealthRecordsByTypeForPatient"}
      /\ last.resp.kind = "Success" )
    => /\ Len(last.data) = Cardinality(Listed(last))
       /\ {last.data[i] : i \in 1..Len(last.data)} = Listed(last)
       /\ \A i, j \in 1..Len(last.data) :
             i < j => TimeOf(last.data[i]) >= TimeOf(last.data[j])

\* three records created with recordedAt 2, 3, 1 are listed as 3, 2, 1
C10_Witness ==
    /\ last.op = "getHealthRecordsForPatient"
    /\ last.resp.kind = "Success"
    /\ last.data = <<2, 1, 3>>
    /\ TimeOf(1) = 2 /\ TimeOf(2) = 3 /\ TimeOf(3) = 1

(***************************************************************************)
(* Records whose parent profile is gone (C11).                             *)
(***************************************************************************)
RecordOps == {"getHealthRecord", "updateHealthRecord", "deleteHealthRecord"}

\* C11: a get, update or delete of a health record that reaches its handler is
\* answered NotFound (404) when the record does not exist and when its parent
\* profile no longer exists, and the record store is left as it was.
C11_MissingRecordOrParent ==
    [][ ( /\ last'.op \in RecordOps
          /\ last'.reached
          /\ \/ ~Exists(records, last'.rid)
             \/ ~Exists(profiles, ParentOf(records, last'.rid)) )
        => ( /\ last'.resp = NotFound404
             /\ records' = records ) ]_vars

(***************************************************************************)
(* SpecPredict: an owner and a stranger record health data and ask for a   *)
(* prediction while the prediction service answers, fails or is silent;    *)
(* the owner also updates the profile, and the adapter is called directly. *)
(***************************************************************************)
\* what the outbound call can end in
Upstreams ==
    { UpstreamResponse(200, GoodPrediction),
      UpstreamResponse(200, LowPrediction),
      UpstreamResponse(200, Prediction(2, Probabilities(50, 50), FALSE)),
      UpstreamResponse(200, ErrorBody(Str("bad input"))),
      UpstreamResponse(503, ErrorBody(Str("model not loaded"))),
      UpstreamResponse(500, ErrorBody(Absent)),
      UpstreamResponse(502, NullV),
      UpstreamNoResponse,
      UpstreamSetupFailure }

FailedCalls == {u \in Upstreams : ~(u.k = "response" /\ u.status \in 200..299)}

\* a second body, with the age as a string of digits
OtherHealthData == HealthDataBody(NumStr(41), Num(180), Num(81), Num(130))

\* profile bodies that also name the owner or the embedded history
ProfileUpdates ==
    { GoodProfile,
      [GoodProfile EXCEPT !.userId = Str("u2")],
      [GoodProfile EXCEPT !.healthRecords = [k |-> "array", items |-> <<>>]] }

\* a direct call of mlService.predictCvdRisk: `last` keeps the call's input as its
\* body and what the adapter returned as its data
CallPredictCvdRisk(upstream) ==
    /\ last' = [NoRequest EXCEPT !.op = "mlService.predictCvdRisk",
                                 !.body = upstream,
                                 !.data = <<mlServicePredictCvdRisk(upstream)>>,
                                 !.ml = 1]
    /\ UNCHANGED <<profiles, records, meds, flight>>

NextPredict ==
    \/ Len(profiles) < MaxAccessProfiles /\ PostPatient(Owner, GoodProfile)
    \/ \E c \in {Owner, Stranger}, b \in ProfileUpdates : PutPatient(c, 1, b)
    \/ DeletePatient(Owner, 1)
    \/ Len(records) < MaxAccessRecords /\ PostHealthRecord(Owner, 1, GoodBp)
    \/ \E c \in {Owner, Stranger}, b \in {GoodHealthData, OtherHealthData}, u \in Upstreams :
          PostHealthData(c, 1, b, mlServicePredictCvdRisk(u))
    \/ \E c \in {Owner, Stranger}, u \in Upstreams :
          PostPredictCvdRisk(c, 1, GoodPredict, mlServicePredictCvdRisk(u))
    \/ \E u \in Upstreams : CallPredictCvdRisk(u)

SpecPredict == Init /\ [][NextPredict]_vars

\* the response that reflects the failed call `u`: the status of the service's
\* answer with its message, or 500 with the unreachable or request-error message
Reflecting(u) ==
    IF u.k = "response"
    THEN Resp(u.status, "ML service error: " \o
                        (IF u.data # NullV /\ IsStr(u.data.error) THEN u.data.error.s
                         ELSE "Unknown error"))
    ELSE IF u.k = "request" THEN Resp(500, "ML service is unreachable")
    ELSE Resp(500, "Error processing ML request")

\* C12: when the outbound prediction call fails during health-data recording or
\* CVD-risk prediction, nothing is persisted (no snapshot, no health record, the
\* profile as it was) and the response is the failure that reflects the call's
\* failure.
C12_PredictionFailureIsolated ==
    [][ \A c \in {Owner, Stranger}, u \in FailedCalls :
          ( /\ \/ \E b \in {GoodHealthData, OtherHealthData} :
                     PostHealthData(c, 1, b, mlServicePredictCvdRisk(u))
               \/ PostPredictCvdRisk(c, 1, GoodPredict, mlServicePredictCvdRisk(u))
            /\ last'.ml = 1 )
          => ( /\ UNCHANGED <<profiles, records, meds>>
               /\ last'.resp = Reflecting(u) ) ]_vars

\* the calls the service answers with a prediction
AnsweredCalls == {u \in Upstreams : u.k = "response" /\ u.status \in 200..299 /\ u.data.k = "prediction"}

\* C13: a successful health-data recording makes the profile's healthRecords one
\* entry longer; the new entry is last, its eleven inputs are the request's inputs
\* as numbers, its bmi is weight / (height / 100)^2 and its prediction fields are
\* the class, probabilities and alert the service answered.
C13_RecordingAppendsSnapshot ==
    [][ \A c \in {Owner, Stranger}, b \in {GoodHealthData, OtherHealthData}, u \in AnsweredCalls :
          ( /\ PostHealthData(c, 1, b, mlServicePredictCvdRisk(u))
            /\ last'.resp.kind = "Success" )
          => LET before == profiles[1].healthRecords
                 after == profiles'[1].healthRecords
                 entry == after[Len(after)]
             IN  /\ Len(after) = Len(before) + 1
                 /\ SubSeq(after, 1, Len(before)) = before
                 /\ \A f \in Features : entry.input[f].k = "num" /\ entry.input[f].n = b[f].n
                 /\ entry.bmi.n * (b.height.n * b.height.n) <= b.weight.n * 1000000
                 /\ (entry.bmi.n + 1) * (b.height.n * b.height.n) > b.weight.n * 1000000
                 /\ entry.cvdPredictionClass = u.data.class
                 /\ entry.cvdPredictionProbabilities = u.data.probabilities
                 /\ entry.cvdAlertTriggered = u.data.alert
                 /\ UNCHANGED <<records, meds>> ]_vars

\* the second recording of a profile: the age arrived as "41" and is stored as 41,
\* 81 kg at 180 cm give a bmi of 25.00
C13_Witness ==
    /\ last.op = "recordPatientHealthData"
    /\ last.resp.kind = "Success"
    /\ last.body = OtherHealthData
    /\ Exists(profiles, 1)
    /\ Len(profiles[1].healthRecords) = 2
    /\ profiles[1].healthRecords[2].input.age = Num(41)
    /\ profiles[1].healthRecords[2].bmi = Num(2500)
    /\ profiles[1].healthRecords[2].cvdPredictionClass = 0

\* C14: the embedded healthRecords of a profile only grow at the end: while the
\* profile exists, every snapshot once stored stays, unchanged and in its place.
C14_HistoryAppendOnly ==
    [][ \A i \in Ids(profiles) :
          Exists(profiles', i) =>
            /\ Len(profiles'[i].healthRecords) >= Len(profiles[i].healthRecords)
            /\ SubSeq(profiles'[i].healthRecords, 1, Len(profiles[i].healthRecords))
                 = profiles[i].healthRecords ]_vars

\* C15: the userId of a profile is the id of the principal that created it and
\* never changes afterwards, whatever an update's body holds.
C15_OwnerImmutable ==
    [][ /\ \A i \in Ids(profiles) :
             Exists(profiles', i) => profiles'[i].userId = profiles[i].userId
        /\ (last'.op = "createPatientProfile" /\ last'.resp.kind = "Success")
             => profiles'[Len(profiles')].userId = last'.principal ]_vars

(***************************************************************************)
(* SpecMeds: the owner of two profiles adds, updates and deletes           *)
(* medications; a stranger tries the same.                                 *)
(***************************************************************************)
\* update bodies: a good one, one that ends before it starts, the end date alone,
\* and one that names another profile
MedUpdates == {GoodMed, BadMed, EndDateOnly, [GoodMed EXCEPT !.patientId = Num(2)]}

NextMeds ==
    \/ PostPatient(Owner, GoodProfile)
    \/ \E c \in {Owner, Stranger}, id \in 1..MaxProfiles, b \in {GoodMed, BadMed} :
          PostMedication(c, id, b)
    \/ \E c \in {Owner, Stranger}, id \in 1..MaxMeds, b \in MedUpdates : PutMedication(c, id, b)
    \/ \E c \in {Owner, Stranger}, id \in 1..MaxMeds : DeleteMedication(c, id)
    \/ \E id \in 1..MaxProfiles : GetMedications(Owner, id)
    \/ \E id \in 1..MaxMeds : GetMedication(Owner, id)
    \/ Len(records) < 1 /\ PostHealthRecord(Owner, 1, GoodBp)
    \/ \E c \in {Owner, Stranger}, p \in {Absent, Num(2)} :
          PutHealthRecord(c, 1, [GoodBp EXCEPT !.patientId = p])

SpecMeds == Init /\ [][NextMeds]_vars

ListedMeds(i) == {profiles[i].currentMedications[n] : n \in 1..Len(profiles[i].currentMedications)}

\* C16: the currentMedications list of a profile holds no id twice and no id of
\* a medication that no longer exists.
C16_ListNoDuplicateNoDangling ==
    \A i \in Ids(profiles) :
        /\ Cardinality(ListedMeds(i)) = Len(profiles[i].currentMedications)
        /\ ListedMeds(i) \subseteq Ids(meds)

\* C17: the currentMedications of every profile, as a set, are exactly the ids
\* of the existing medications whose patientId is the profile.
C17_ListMatchesMedications ==
    \A i \in Ids(profiles) : ListedMeds(i) = {m \in Ids(meds) : meds[m].patientId = i}

\* C18: every stored medication with a start and an end date ends no earlier
\* than it starts.
C18_EndNotBeforeStart ==
    \A m \in Ids(meds) :
        (IsDate(meds[m].startDate) /\ IsDate(meds[m].endDate))
            => meds[m].endDate.n >= meds[m].startDate.n

(***************************************************************************)
(* The risk-prediction adapter called by itself (C19, under SpecPredict).  *)
(***************************************************************************)
\* C19: mlService.predictCvdRisk never throws: of a non-2xx response it returns an
\* error value with the response's status and message, of no response the
\* 'unreachable' error value, of a set-up failure the request-error value, and of
\* a 2xx response the body unchanged.
C19_AdapterNeverThrows ==
    last.op = "mlService.predictCvdRisk" =>
        LET upstream == last.body
            returned == last.data[1]
        IN  /\ returned.k # "thrown"
            /\ (upstream.k = "response" /\ upstream.status \in 200..299)
                 => returned = upstream.data
            /\ (upstream.k = "response" /\ upstream.status \notin 200..299)
                 => returned.k = "error" /\ returned.status = upstream.status
            /\ upstream.k = "request" => returned = MlError("ML service is unreachable", 0)
            /\ upstream.k = "setup" => returned = MlError("Error processing ML request", 0)

(***************************************************************************)
(* The failure envelope (C20, under SpecValidate).                         *)
(***************************************************************************)
\* the statuses of the error taxonomy; a prediction failure carries the
\* upstream's own status
TaxonomyStatuses ==
    {400, 401, 403, 404, 500} \cup {u.status : u \in {x \in Upstreams : x.k = "response"}}

\* C20: every failure response of a route, whether written by the access guard,
\* the validation middleware, a handler or errorHandler, has a body with the
\* keys success and error and a status of the taxonomy.
C20_FailureEnvelope ==
    (last.sends >= 1 /\ last.resp.kind # "Success")
        => ( /\ {"success", "error"} \subseteq last.resp.fields
             /\ last.resp.status \in TaxonomyStatuses )

(***************************************************************************)
(* SpecLatest: the owner keeps blood-pressure readings of several dates    *)
(* and pressures and a later glucose reading for two profiles, and asks    *)
(* for a prediction (C21).                                                 *)
(***************************************************************************)
LatestBodies ==
    { HRBody(Str("blood_pressure"), Num(t), Absent, Absent, Num(p[1]), Num(p[2])) :
        t \in 1..MaxTime, p \in {<<110, 70>>, <<140, 90>>} }
    \cup { HRBody(Str("glucose"), Num(MaxTime), Num(5), Str("mg"), Absent, Absent) }

NextLatest ==
    \/ PostPatient(Owner, GoodProfile)
    \/ \E pid \in 1..MaxProfiles, b \in LatestBodies :
          Exists(profiles, pid) /\ PostHealthRecord(Owner, pid, b)
    \/ \E t \in 1..MaxTime :
          PutHealthRecord(Owner, 1, HRBody(Str("blood_pressure"), Num(t), Absent, Absent,
                                           Num(110), Num(70)))
    \/ \E id \in 1..MaxRecords : DeleteHealthRecord(Owner, id)
    \/ \E c \in {Owner, Stranger}, pid \in 1..MaxProfiles, o \in {GoodPrediction, Unreachable} :
          PostPredictCvdRisk(c, pid, GoodPredict, o)

SpecLatest == Init /\ [][NextLatest]_vars

\* the stored blood_pressure records of a patient
BloodPressureOf(patientId) ==
    {i \in Ids(records) : /\ records[i].patientId = patientId
                          /\ records[i].type = Str("blood_pressure")}

\* C21: a CVD-risk prediction request that reaches the prediction service sends
\* as ap_hi and ap_lo the systolic and diastolic of a blood_pressure record of the
\* patient that no other blood_pressure record of the patient is later than, and
\* the nine other features as the body gave them; with no blood_pressure record
\* the request fails and the service is not called.
C21_LatestPressureSent ==
    (last.op = "predictCvdRisk" /\ last.reached)
    => /\ last.ml = 1 =>
            /\ \E i \in BloodPressureOf(last.pid) :
                  /\ \A j \in BloodPressureOf(last.pid) : TimeOf(j) <= TimeOf(i)
                  /\ last.mlInput.ap_hi = records[i].systolic
                  /\ last.mlInput.ap_lo = records[i].diastolic
            /\ \A f \in Features \ {"ap_hi", "ap_lo"} :
                  last.mlInput[f] = NumberOf(last.body[f])
       /\ BloodPressureOf(last.pid) = {} => (last.ml = 0 /\ last.resp.kind # "Success")

\* the third reading is the latest; an older reading of another pressure, a later
\* glucose reading and the body's own ap_hi are not what was sent
C21_Witness ==
    /\ last.op = "predictCvdRisk" /\ last.ml = 1 /\ last.resp.kind = "Success"
    /\ Len(records) = 3
    /\ BloodPressureOf(1) = {1, 2}
    /\ TimeOf(1) = 2 /\ TimeOf(2) = 1 /\ TimeOf(3) = 3
    /\ records[1].systolic = Num(140) /\ records[2].systolic = Num(110)
    /\ last.mlInput.ap_hi = Num(140) /\ last.body.ap_hi = Num(120)

(***************************************************************************)
(* Requests handled step by step.  A handler runs from one `await` to the  *)
(* next without interruption; between two awaits the steps of other        *)
(* requests can come.  recordPatientHealthData and addMedication both read *)
(* the profile, push on the copy they hold and save it; predictCvdRisk     *)
(* reads the profile and the latest blood_pressure record.                 *)
(***************************************************************************)
\* (a variant of save that writes the whole array of the copy it holds)
saveWholeArray(stored, held, pushed) == held \o pushed

\* document.save() after array.push(...): Mongoose sends the pushed entries alone,
\* as $push, and the database appends them to the array as it is stored
save(stored, held, pushed) == stored \o pushed

\* writer w goes on as f / has answered resp
Goes(w, f) == flight' = [flight EXCEPT ![w] = f]
Answers(w, resp) == Goes(w, [flight[w] EXCEPT !.pc = "done", !.resp = resp])

\* the request arrives: protect and the route's validators, then the handler's
\* first await, PatientProfile.findById
Arrives(w, op, cred, id, body) ==
    /\ flight[w].pc = "idle"
    /\ LET g == protect(cred)
           v == handleValidationErrors(IF op = "recordPatientHealthData"
                                       THEN validateHealthData(id, body)
                                       ELSE IF op = "predictCvdRisk"
                                       THEN validateHealthRecordBody(body)
                                       ELSE {})
       IN  IF ~g.pass THEN Answers(w, g.resp)
           ELSE IF ~v.pass THEN Answers(w, v.resp)
           ELSE Goes(w, [flight[w] EXCEPT !.pc = "findById", !.op = op, !.user = g.user,
                                          !.id = id, !.body = body])
    /\ UNCHANGED <<profiles, records, meds, last>>

\* findById answers: 404, 401, or the handler goes on to its next await, the call
\* of the prediction service, HealthRecord.findOne or Medication.create
FindsPatient(w) ==
    /\ flight[w].pc = "findById"
    /\ LET patient == FindById(profiles, flight[w].id) IN
       IF patient = NoDoc THEN Answers(w, NotFound404)
       ELSE IF NotAuthorized(OwnerText(patient), flight[w].user) THEN Answers(w, Forbidden401)
       ELSE IF flight[w].op = "recordPatientHealthData"
       THEN Goes(w, [flight[w] EXCEPT !.pc = "predictCvdRisk", !.doc = patient,
                                      !.calls = @ + 1])
       ELSE IF flight[w].op = "predictCvdRisk"
       THEN Goes(w, [flight[w] EXCEPT !.pc = "findOne", !.doc = patient])
       ELSE Goes(w, [flight[w] EXCEPT !.pc = "create", !.doc = patient])
    /\ UNCHANGED <<profiles, records, meds, last>>

\* findOne of predictCvdRisk answers `order`'s first record: 400 without one or
\* with a feature missing, otherwise the call of the prediction service
FindsLatest(w, order) ==
    /\ flight[w].pc = "findOne"
    /\ order \in findSorted(flight[w].id, Str("blood_pressure"))
    /\ IF order = <<>> THEN Answers(w, errorHandler(ErrorResponse("BadRequest", 400)))
       ELSE LET latestBpRecord == records[order[1]] IN
            IF \/ ~HasValue(latestBpRecord.systolic) \/ ~HasValue(latestBpRecord.diastolic)
               \/ \E f \in Features \ {"ap_hi", "ap_lo"} : ~HasValue(flight[w].body[f])
            THEN Answers(w, errorHandler(ErrorResponse("BadRequest", 400)))
            ELSE Goes(w, [flight[w] EXCEPT !.pc = "predictCvdRisk", !.calls = @ + 1])
    /\ UNCHANGED <<profiles, records, meds, last>>

\* (a variant that calls the service again when a call failed)
PredictionArrivesRetrying(w, upstream) ==
    /\ flight[w].pc = "predictCvdRisk"
    /\ LET outcome == mlServicePredictCvdRisk(upstream) IN
       IF outcome.k # "prediction" /\ flight[w].calls = 1
       THEN Goes(w, [flight[w] EXCEPT !.calls = @ + 1])
       ELSE IF outcome.k # "prediction" THEN Answers(w, PredictionFailed(outcome)[1])
       ELSE IF flight[w].op = "predictCvdRisk" THEN Answers(w, Ok200)
       ELSE LET snapshot == Snapshot(flight[w].body, outcome) IN
            IF SnapshotErrors(snapshot) # {} THEN Answers(w, errorHandler(ValidationError))
            ELSE Goes(w, [flight[w] EXCEPT !.pc = "save", !.pushed = <<snapshot>>])
    /\ UNCHANGED <<profiles, records, meds, last>>

\* the prediction service answers (or the call fails): an error is passed on;
\* predictCvdRisk answers a prediction with 200; recordPatientHealthData pushes it
\* on the held profile and sends the save
PredictionArrives(w, upstream) ==
    /\ flight[w].pc = "predictCvdRisk"
    /\ LET outcome == mlServicePredictCvdRisk(upstream) IN
       IF outcome.k # "prediction" THEN Answers(w, PredictionFailed(outcome)[1])
       ELSE IF flight[w].op = "predictCvdRisk" THEN Answers(w, Ok200)
       ELSE LET snapshot == Snapshot(flight[w].body, outcome) IN
            IF SnapshotErrors(snapshot) # {} THEN Answers(w, errorHandler(ValidationError))
            ELSE Goes(w, [flight[w] EXCEPT !.pc = "save", !.pushed = <<snapshot>>])
    /\ UNCHANGED <<profiles, records, meds, last>>

\* patient.save() of recordPatientHealthData is applied, then the 200
SavesPatient(w) ==
    /\ flight[w].pc = "save"
    /\ profiles' = [profiles EXCEPT ![flight[w].id].healthRecords =
                       save(@, flight[w].doc.healthRecords, flight[w].pushed)]
    /\ Answers(w, Ok200)
    /\ UNCHANGED <<records, meds, last>>

\* Medication.create: validation, the insert, then the post('save') hook starts
\* with its own findById
CreatesMedication(w) ==
    /\ flight[w].pc = "create"
    /\ Len(meds) < MaxMeds
    /\ LET doc == MedicationDoc(flight[w].body, flight[w].id) IN
       IF MedicationCreateErrors(doc) # {}
       THEN Answers(w, MedicationCatch(ValidationError, 500)) /\ UNCHANGED meds
       ELSE /\ meds' = Inserted(meds, doc)
            /\ Goes(w, [flight[w] EXCEPT !.pc = "hook", !.med = Len(meds) + 1])
    /\ UNCHANGED <<profiles, records, last>>

\* updatePatientMedications(patientId, id, 'add'): the hook reads the profile anew,
\* pushes the id when the list it read lacks it, and sends its save
HookFindsPatient(w) ==
    /\ flight[w].pc = "hook"
    /\ LET patient == FindById(profiles, flight[w].id) IN
       IF patient = NoDoc \/ Has(patient.currentMedications, flight[w].med)
       THEN Goes(w, [flight[w] EXCEPT !.pc = "push"])
       ELSE Goes(w, [flight[w] EXCEPT !.pc = "hookSave", !.hookDoc = patient])
    /\ UNCHANGED <<profiles, records, meds, last>>

\* the hook's save is applied; create() returns and the handler pushes the id on
\* the profile it read at the start and sends its own save
HookSavesPatient(w) ==
    /\ flight[w].pc = "hookSave"
    /\ profiles' = [profiles EXCEPT ![flight[w].id].currentMedications =
                       save(@, flight[w].hookDoc.currentMedications, <<flight[w].med>>)]
    /\ Goes(w, [flight[w] EXCEPT !.pc = "push"])
    /\ UNCHANGED <<records, meds, last>>

\* patientProfile.save() of addMedication is applied, then the 201
PushesMedication(w) ==
    /\ flight[w].pc = "push"
    /\ profiles' = [profiles EXCEPT ![flight[w].id].currentMedications =
                       save(@, flight[w].doc.currentMedications, <<flight[w].med>>)]
    /\ Answers(w, Created201)
    /\ UNCHANGED <<records, meds, last>>

(***************************************************************************)
(* SpecRace: the owner has one profile; the writers' requests for it are   *)
(* handled at the same time, their steps in any order (C22).               *)
(***************************************************************************)
RaceUpstreams ==
    { UpstreamResponse(200, GoodPrediction),
      UpstreamResponse(503, ErrorBody(Str("model not loaded"))),
      UpstreamResponse(502, NullV),
      UpstreamNoResponse }

\* the steps of a handler that wait for the database
DatabaseAnswers(w) ==
    \/ FindsPatient(w)
    \/ \E order \in findSorted(flight[w].id, Str("blood_pressure")) : FindsLatest(w, order)
    \/ SavesPatient(w)
    \/ CreatesMedication(w)
    \/ HookFindsPatient(w)
    \/ HookSavesPatient(w)
    \/ PushesMedication(w)

NextRace ==
    \/ Len(profiles) < 1 /\ PostPatient(Owner, GoodProfile)
    \/ Len(records) < 1 /\ PostHealthRecord(Owner, 1, GoodBp)
    \/ \E w \in Writers, c \in {Owner, Stranger}, b \in {GoodHealthData, OtherHealthData} :
          Arrives(w, "recordPatientHealthData", c, 1, b)
    \/ \E w \in Writers, c \in {Owner, Stranger} : Arrives(w, "predictCvdRisk", c, 1, GoodPredict)
    \/ \E w \in Writers, c \in {Owner, Stranger} : Arrives(w, "addMedication", c, 1, GoodMed)
    \/ \E w \in Writers, u \in RaceUpstreams : PredictionArrives(w, u)
    \/ \E w \in Writers : DatabaseAnswers(w)

SpecRace == Init /\ [][NextRace]_vars

\* the writers that appended and were answered with success
Appended(op) ==
    {w \in Writers : /\ flight[w].pc = "done" /\ flight[w].op = op
                     /\ flight[w].resp.kind = "Success"}

Count(list, x) == Cardinality({i \in 1..Len(list) : list[i] = x})

\* C22 (as the code behaves): however the steps of concurrent writers to one
\* profile interleave, every writer answered with success has its entry in the
\* profile: the history holds one entry for each successful recording and the
\* medication list holds the id of each successful add.
C22_NoAppendLost ==
    /\ \A w \in Appended("recordPatientHealthData") :
          Count(profiles[flight[w].id].healthRecords, flight[w].pushed[1])
            = Cardinality({x \in Appended("recordPatientHealthData") :
                             flight[x].pushed = flight[w].pushed})
    /\ \A w \in Appended("addMedication") :
          Has(profiles[flight[w].id].currentMedications, flight[w].med)

\* both writers read the empty history before either saved, and both entries are kept
C22_Witness ==
    /\ Appended("recordPatientHealthData") = {1, 2}
    /\ flight[1].doc.healthRecords = <<>> /\ flight[2].doc.healthRecords = <<>>
    /\ flight[1].pushed # flight[2].pushed
    /\ Len(profiles[1].healthRecords) = 2

\* every writer read the profile before any of them saved, and each was answered
\* with success
RacedRecordings ==
    /\ Appended("recordPatientHealthData") = Writers
    /\ \A w \in Writers : flight[w].doc.healthRecords = <<>>

\* C22 (as stated): when concurrent recordings interleave so that each reads the
\* profile before the other saves, both are answered with success and the profile
\* afterwards holds one of the appended entries only.
C22_LostUpdate == RacedRecordings => Len(profiles[1].healthRecords) = 1

(***************************************************************************)
(* The calls of the prediction service a request makes (C23, under         *)
(* SpecRace).                                                              *)
(***************************************************************************)
FailedUpstreams == {u \in RaceUpstreams : ~(u.k = "response" /\ u.status \in 200..299)}

\* C23: a health-data recording or CVD-risk prediction request calls the
\* prediction service at most once, and when the call fails the request is
\* answered with a failure in that step, without another call.
C23_NoRetry ==
    [][ \A w \in Writers :
          /\ flight'[w].calls <= 1
          /\ \A u \in FailedUpstreams :
                PredictionArrives(w, u)
                  => /\ flight'[w].pc = "done"
                     /\ flight'[w].resp.kind # "Success"
                     /\ flight'[w].calls = 1 ]_vars

\* both operations were answered after a call that failed
C23_Witness ==
    /\ flight[1].pc = "done" /\ flight[1].op = "recordPatientHealthData"
    /\ flight[1].calls = 1 /\ flight[1].resp = Resp(503, "ML service error: model not loaded")
    /\ flight[2].pc = "done" /\ flight[2].op = "predictCvdRisk"
    /\ flight[2].calls = 1 /\ flight[2].resp = Resp(500, "ML service is unreachable")

(***************************************************************************)
(* SpecRaceLive: SpecRace where every database call a request waits for    *)
(* is answered in the end.  The call of the prediction service is made     *)
(* with axios.post without a timeout, and nothing makes the service answer *)
(* (C24).                                                                  *)
(***************************************************************************)
SpecRaceLive == SpecRace /\ \A w \in Writers : WF_vars(DatabaseAnswers(w))

\* C24: every request that entered its handler is answered in the end, also
\* when the prediction service never answers its call.
C24_EveryRequestAnswered ==
    \A w \in Writers : (flight[w].pc # "idle") ~> (flight[w].pc = "done")

(***************************************************************************)
(* The writes to `res` of one request (C25, under SpecAccess).             *)
(***************************************************************************)
\* C25: a request that reaches its handler is answered by exactly one write to
\* res, and when that answer is a failure the handler has written nothing to the
\* collections.
C25_ExactlyOneResponse ==
    [][ last'.reached
          => /\ last'.sends = 1
             /\ last'.resp.kind # "Success" => UNCHANGED <<profiles, records, meds>> ]_vars

(***************************************************************************)
(* The parent of a health record and of a medication (C26, under SpecMeds).*)
(***************************************************************************)
\* C26: no operation changes the patientId of a stored health record or
\* medication: it stays the patientId of the URL the document was created under.
C26_NeverReparented ==
    [][ /\ \A i \in Ids(records) :
              Exists(records', i) => records'[i].patientId = records[i].patientId
        /\ \A m \in Ids(meds) :
              Exists(meds', m) => meds'[m].patientId = meds[m].patientId
        /\ (last'.op = "createHealthRecord" /\ Len(records') > Len(records))
              => records'[Len(records')].patientId = last'.pid
        /\ (last'.op = "addMedication" /\ Len(meds') > Len(meds))
              => meds'[Len(meds')].patientId = last'.pid ]_vars

(***************************************************************************)
(* The prediction call and the access check (C27, under SpecAccess).       *)
(***************************************************************************)
PredictingOps == {"recordPatientHealthData", "predictCvdRisk"}

\* C27: a health-data recording or CVD-risk prediction request for a profile that
\* does not exist, or by a principal who is neither its owner nor an admin, is
\* refused without a call of the prediction service and leaves the profiles as
\* they were.
C27_CallOnlyAfterAccess ==
    [][ ( /\ last'.op \in PredictingOps
          /\ \/ last'.owner = None
             \/ (last'.principal # last'.owner /\ RoleOf(last'.principal) # "admin") )
        => ( /\ last'.ml = 0
             /\ last'.mlInput = NoDoc
             /\ last'.resp.kind # "Success"
             /\ profiles' = profiles ) ]_vars

\* a stranger's recording with a valid body reached the handler and was refused
\* there, with no call
C27_Witness ==
    /\ last.op = "recordPatientHealthData"
    /\ ByNonOwner(last) /\ last.reached
    /\ last.resp = Forbidden401
    /\ last.ml = 0

(***************************************************************************)
(* SpecOwn: the three principals create profiles with bodies that name an  *)
(* owner themselves, update and delete them, and list their own (C28, C29).*)
(***************************************************************************)
OwnBodies == {GoodProfile} \cup {[GoodProfile EXCEPT !.userId = Str(u)] : u \in UserIds}

NextOwn ==
    \/ \E c \in AccessCreds, b \in OwnBodies : PostPatient(c, b)
    \/ \E c \in AccessCreds, id \in 1..MaxProfiles, b \in OwnBodies : PutPatient(c, id, b)
    \/ \E c \in AccessCreds, id \in 1..MaxProfiles : DeletePatient(c, id)
    \/ \E c \in AccessCreds : GetPatients(c)

SpecOwn == Init /\ [][NextOwn]_vars

\* C28: a profile creation that succeeds stores one new profile whose userId is
\* the id of the authenticated principal, whatever userId the body names.
C28_CreatorIsOwner ==
    [][ (last'.op = "createPatientProfile" /\ last'.resp.kind = "Success")
          => /\ Len(profiles') = Len(profiles) + 1
             /\ profiles'[Len(profiles')].userId = last'.principal
             /\ \A i \in 1..Len(profiles) : profiles'[i] = profiles[i] ]_vars

\* u1 created a profile with a body that names u2 as the owner, and owns it
C28_Witness ==
    /\ last.op = "createPatientProfile" /\ last.resp.kind = "Success"
    /\ last.principal = "u1" /\ last.body.userId = Str("u2")
    /\ profiles[Len(profiles)].userId = "u1"

\* the stored profiles of a principal
OwnedBy(uid) == {i \in Ids(profiles) : profiles[i].userId = uid}

\* C29: the list of profiles answers with exactly the stored profiles whose
\* userId is the principal's id, each once, for admins as for users, and changes
\* nothing.
C29_ListOwnOnly ==
    [][ (last'.op = "getPatientProfiles" /\ last'.nexts = 1)
          => /\ last'.resp.kind = "Success"
             /\ {last'.data[n] : n \in 1..Len(last'.data)} = OwnedBy(last'.principal)
             /\ Len(last'.data) = Cardinality(OwnedBy(last'.principal))
             /\ UNCHANGED <<profiles, records, meds>> ]_vars

\* an admin listed while it owned one of two stored profiles and u1 the other:
\* the answer is its own profile alone
C29_Witness ==
    /\ last.op = "getPatientProfiles" /\ last.resp.kind = "Success"
    /\ last.principal = "adm"
    /\ Cardinality(Ids(profiles)) = 2
    /\ Len(last.data) = 1 /\ OwnedBy("u1") # {}

(***************************************************************************)
(* Login.  The User documents are the ones protect reads; each has a       *)
(* unique email and the hash of its password.  The route has no validator, *)
(* so `email` is whatever JSON value the body carries: a string, or an     *)
(* object, which Mongoose reads as a query selector.  Passwords are        *)
(* strings.                                                                *)
(***************************************************************************)
EmailOf(uid) == uid \o "@med.ai"
PasswordOf(uid) == "pw-" \o uid

\* bcrypt's hash of a password, as the User model stores it
Hash(password) == "$2b$" \o password

\* a query selector in place of a value: { "$ne": s }
Ne(s) == [k |-> "ne", s |-> s]

\* User.findOne({ email }).select('+password'): the documents the query can
\* answer with, null when no document matches.  A string matches the user with
\* that email, a selector every user it holds for.
findOne(email) ==
    LET matches(uid) == IF email.k = "ne" THEN EmailOf(uid) # email.s
                        ELSE email = Str(EmailOf(uid))
        found == {uid \in UserIds : matches(uid)}
    IN  IF found = {} THEN {NoDoc}
        ELSE {[k |-> "user", id |-> uid, role |-> RoleOf(uid),
               email |-> EmailOf(uid), password |-> Hash(PasswordOf(uid))] : uid \in found}

\* user.matchPassword(entered): bcrypt compares the entered password with the hash
matchPassword(user, entered) == IsStr(entered) /\ Hash(entered.s) = user.password

\* user.getSignedJwtToken(): a credential signed for the user's id
getSignedJwtToken(user) == ValidCred(user.id)

\* { success: true, token, user: {...} }
sendTokenResponse(user, statusCode) ==
    [resp |-> Json(statusCode, "Success", {"success", "token", "user"}),
     data |-> <<getSignedJwtToken(user)>>]

\* login, `user` being what findOne answered
login(body, user) ==
    IF ~Present(body.email) \/ ~Present(body.password)
    THEN [resp |-> BadRequest400, data |-> <<>>]
    ELSE IF user = NoDoc
    THEN [resp |-> Unauthenticated401, data |-> <<>>]
    ELSE IF ~matchPassword(user, body.password)
    THEN [resp |-> Unauthenticated401, data |-> <<>>]
    ELSE sendTokenResponse(user, 200)

\* POST /api/auth/login
PostLogin(body) ==
    \E user \in (IF Present(body.email) THEN findOne(body.email) ELSE {NoDoc}) :
        LET h == login(body, user) IN
        /\ last' = [NoRequest EXCEPT !.op = "login", !.body = body, !.reached = TRUE,
                                     !.resp = h.resp, !.sends = 1, !.data = h.data]
        /\ UNCHANGED <<profiles, records, meds, flight>>

UnknownEmail == "nobody@med.ai"

LoginBodies ==
    [email : {Absent, Ne(UnknownEmail), Str(UnknownEmail)} \cup {Str(EmailOf(u)) : u \in UserIds},
     password : {Absent, Str("pw-wrong")} \cup {Str(PasswordOf(u)) : u \in UserIds}]

NextLogin ==
    \/ \E c \in AccessCreds : PostPatient(c, GoodProfile)
    \/ \E c \in AccessCreds, id \in 1..MaxProfiles : DeletePatient(c, id)
    \/ \E b \in LoginBodies : PostLogin(b)

SpecLogin == Init /\ [][NextLogin]_vars

\* C30: login answers with a signed credential only when a user has the given
\* email and the given password is that user's, the credential being signed for
\* that user; an unknown email and a wrong password get the same 401; and no
\* login changes a stored document.
C30_LoginIndistinguishable ==
    [][ last'.op = "login"
          => /\ (last'.resp.kind = "Success"
                   => \E u \in UserIds :
                        /\ last'.body.email = Str(EmailOf(u))
                        /\ last'.body.password = Str(PasswordOf(u))
                        /\ last'.data = <<ValidCred(u)>>)
             /\ \A u \in UserIds :
                  (/\ Present(last'.body.password)
                   /\ last'.body.password # Str(PasswordOf(u))
                   /\ last'.body.email \in {Str(UnknownEmail), Str(EmailOf(u))})
                    => last'.resp = Unauthenticated401
             /\ UNCHANGED <<profiles, records, meds>> ]_vars

====
